---- MODULE Spec2Model ----
(***************************************************************************)
(* A model of the fiber virtual machine of vrsjmp.                         *)
(*                                                                         *)
(*   - lemma/src/fiber.rs    : Fiber, CallFrame, run  (operand stack, call *)
(*                             frames, lexical environments, natives)      *)
(*   - lemma/src/v2/fiber.rs : Fiber with a Status, start, run             *)
(*   - lemma/src/builtin.rs  : the `+` native                              *)
(*   - lyric/tests/embedding.rs : the host programs driving a fiber        *)
(*                                                                         *)
(* The Yield instruction, NativeFnVal::Yield and resume_from_yield are     *)
(* used by the tests and by builtin.rs but their implementation (lyric's   *)
(* fiber) is not among the sources; they are modelled from the             *)
(* specification, as are the operations of Env.                            *)
(***************************************************************************)
EXTENDS Integers, Sequences, FiniteSets, TLC

VARIABLES
    cframes,   \* Fiber.cframes : sequence of [ip, code, env], root first
    stack,     \* Fiber.stack   : operand stack, top last
    envs,      \* the Rc<RefCell<Env>> allocations: id -> [vars, parent]
    locals,    \* Fiber.locals : the host's per-fiber state (Locals.val)
    pc,        \* where control is: "host", "fetch" (top of the loop of run),
               \* "after" (after the dispatch of an instruction)
    ret,       \* what the last call of resume / resume_from_yield returned
    call,      \* the last call the host made, with its argument
    resumes,   \* number of host calls made so far
    cframes2,  \* v2 Fiber.cframes
    stack2,    \* v2 Fiber.stack
    status2,   \* v2 Fiber.status
    envs2,     \* v2 environments
    pc2,       \* v2: "host" or "run"
    ret2,      \* v2: what the last call of start returned
    fibers,    \* two fibers under one scheduler: a record of each
    arena,     \* the Rc<RefCell<Env>> allocations the two fibers live in
    conv,      \* a conversion between Form and Val: [stage, src, val, res]
    runtime,   \* core Runtime: "none", "live" (the handle exists), "dropped"
    evloop_rx, \* the mpsc channel of the event loop: the messages in it
    evloop,    \* the event loop task: [pc, msg]
    clients,   \* EventLoop.clients
    oneshots,  \* the oneshot channel of every request made: [val, rx, sends]
    tasks      \* the requesters: [pc, req, answers]

vars1 == <<cframes, stack, envs, locals, pc, ret, call>>
vars2 == <<cframes2, stack2, status2, envs2, pc2, ret2>>
vars3 == <<fibers, arena>>
vars4 == <<conv>>
vars5 == <<runtime, evloop_rx, evloop, clients, oneshots, tasks>>
vars  == <<cframes, stack, envs, locals, pc, ret, call, resumes,
           cframes2, stack2, status2, envs2, pc2, ret2, fibers, arena, conv,
           runtime, evloop_rx, evloop, clients, oneshots, tasks>>

-----------------------------------------------------------------------------
(* Bounds of the model *)

\* longest generated bytecode sequence
MaxLen == 2
\* host calls (resume / resume_from_yield / start) per behaviour
MaxResumes == 3
\* call frames a fiber may hold before the model stops it
MaxFrames == 4
\* iterations of the loop of run a nested fiber makes at most
MaxNested == 12

-----------------------------------------------------------------------------
(* Values: Val of types.rs, as tagged tuples *)

ValNil            == <<"Nil">>
ValBool(b)        == <<"Bool", b>>
ValInt(i)         == <<"Int", i>>
ValString(s)      == <<"String", s>>
ValSymbol(s)      == <<"Symbol", s>>
ValKeyword(s)     == <<"Keyword", s>>
ValList(l)        == <<"List", l>>
ValLambda(p, c, e) == <<"Lambda", p, c, e>>
ValNativeFn(s)    == <<"NativeFn", s>>
ValBytecode(c)    == <<"Bytecode", c>>
ValError(e)       == <<"Error", e>>
ValExtern(x)      == <<"Extern", x>>

\* the reserved operand-stack slot of a suspended fiber
ResumeSlot     == <<"ResumeSlot">>

(* Errors *)
NoMoreBytecode     == <<"NoMoreBytecode">>
UnexpectedStack    == <<"UnexpectedStack">>
UndefinedSymbol(s) == <<"UndefinedSymbol", s>>
AlreadyRunning     == <<"AlreadyRunning">>
InvalidExpression  == <<"InvalidExpression">>
EmptyExpression    == <<"EmptyExpression">>
InvalidArgumentsToFunctionCall == <<"InvalidArgumentsToFunctionCall">>
InvalidOperation(v) == <<"InvalidOperation", v>>
AlreadyCompleted   == <<"AlreadyCompleted">>

(* Instructions: Inst *)
PushConst(v)        == <<"PushConst", v>>
DefSym(s)           == <<"DefSym", s>>
SetSym(s)           == <<"SetSym", s>>
GetSym(s)           == <<"GetSym", s>>
MakeFunc            == <<"MakeFunc">>
CallFunc(n)         == <<"CallFunc", n>>
PopTop              == <<"PopTop">>
JumpFwd(k)          == <<"JumpFwd", k>>
PopJumpFwdIfTrue(k) == <<"PopJumpFwdIfTrue", k>>
Yield               == <<"Yield">>
\* the backward jump a (loop body...) form ends with
JumpBck(k)          == <<"JumpBck", k>>

(* Sequence helpers *)
Top(s)     == s[Len(s)]
Pop(s)     == SubSeq(s, 1, Len(s) - 1)
Push(s, v) == Append(s, v)
SetTop(s, v) == [s EXCEPT ![Len(s)] = v]
Reverse(s) == [i \in 1..Len(s) |-> s[Len(s) + 1 - i]]

-----------------------------------------------------------------------------
(* Env: a map from symbols to values with an optional parent.  An          *)
(* environment is shared by reference (Rc<RefCell<Env>>): `envs` is the    *)
(* heap of these allocations and an environment is named by its index.     *)
(* parent = 0 stands for no parent.                                        *)

NoEnv == 0

EmptyEnv == [vars |-> <<>>, parent |-> NoEnv]

\* Env::extend(parent): a fresh frame pointing at parent
EnvExtend(parent) == [vars |-> <<>>, parent |-> parent]

\* Env::define(sym, val): unconditional insert in this frame
EnvDefine(env, s, v) ==
    [env EXCEPT !.vars = (s :> v) @@ env.vars]

\* Env::get(sym): nearest enclosing lookup; <<"None">> or <<"Some", v>>
RECURSIVE EnvGet(_, _, _)
EnvGet(heap, e, s) ==
    IF s \in DOMAIN heap[e].vars THEN <<"Some", heap[e].vars[s]>>
    ELSE IF heap[e].parent = NoEnv THEN <<"None">>
    ELSE EnvGet(heap, heap[e].parent, s)

\* the frame Env::set assigns in: the nearest enclosing frame that defines
\* sym, or NoEnv
RECURSIVE EnvDefiner(_, _, _)
EnvDefiner(heap, e, s) ==
    IF s \in DOMAIN heap[e].vars THEN e
    ELSE IF heap[e].parent = NoEnv THEN NoEnv
    ELSE EnvDefiner(heap, heap[e].parent, s)

\* Env::set(sym, val): [ok, heap]
EnvSet(heap, e, s, v) ==
    LET d == EnvDefiner(heap, e, s) IN
    IF d = NoEnv THEN [ok |-> FALSE, heap |-> heap]
    ELSE [ok |-> TRUE, heap |-> [heap EXCEPT ![d] = EnvDefine(heap[d], s, v)]]

-----------------------------------------------------------------------------
(* Native functions.  A native maps its arguments to                       *)
(*   <<"Return", v>>, <<"Yield", v>>, <<"Err", e>> or <<"Panic">>.         *)

I32Max == 2147483647

I32Min == -I32Max - 1

\* a + b is outside i32
AddOverflows(a, b) ==
    IF b >= 0 THEN a > I32Max - b ELSE a < I32Min - b

\* a + that gives its first operand
PlusFnKeepsFirst(args) ==
    IF Len(args) = 2 /\ args[1][1] = "Int" /\ args[2][1] = "Int"
    THEN <<"Return", args[1]>>
    ELSE <<"Panic">>

\* builtin.rs plus_fn: two Ints are added, anything else panics; a + b
\* outside i32 panics too ("attempt to add with overflow", the build of
\* the tests; a build without overflow checks wraps)
PlusFn(args) ==
    IF Len(args) = 2 /\ args[1][1] = "Int" /\ args[2][1] = "Int"
    THEN IF AddOverflows(args[1][2], args[2][2])
         THEN <<"Panic">>
         ELSE <<"Return", ValInt(args[1][2] + args[2][2])>>
    ELSE <<"Panic">>

\* embedding.rs echo_yield: yields its arguments to the host
EchoYieldFn(args) == <<"Yield", ValExtern(<<"EchoYield", args>>)>>

\* embedding.rs recv_conn: asks the host for the next expression
RecvConnFn(args) == <<"Yield", ValExtern(<<"RecvConn">>)>>

\* embedding.rs send_conn: hands its arguments to the host
SendConnFn(args) == <<"Yield", ValExtern(<<"SendConn", args>>)>>

NativeCall(name, args) ==
    CASE name = "+"          -> PlusFn(args)
      [] name = "echo_yield" -> EchoYieldFn(args)
      [] name = "recv_conn"  -> RecvConnFn(args)
      [] name = "send_conn"  -> SendConnFn(args)
      [] OTHER               -> <<"Panic">>

\* the natives the host binds
Natives == {"+", "echo_yield", "peval", "recv_conn", "send_conn",
            "get_local", "inc_local"}

-----------------------------------------------------------------------------
(* The compiler, for the expressions handed to peval: atoms, quote, def,   *)
(* set, begin, yield and function calls.  <<"Ok", code>> or <<"Err", e>>.  *)

RECURSIVE Compile(_)
RECURSIVE CompileAll(_, _, _)

\* the code of es[i..], each expression preceded by sep except the first
CompileAll(es, i, sep) ==
    IF i > Len(es) THEN <<"Ok", <<>>>>
    ELSE LET c == Compile(es[i])
             r == CompileAll(es, i + 1, sep)
         IN IF c[1] = "Err" THEN c
            ELSE IF r[1] = "Err" THEN r
            ELSE <<"Ok", c[2] \o (IF i < Len(es) THEN sep ELSE <<>>) \o r[2]>>

Compile(v) ==
    CASE v[1] \in {"Int", "Bool", "String", "Keyword", "Nil"} ->
            <<"Ok", <<PushConst(v)>>>>
      [] v[1] = "Symbol" -> <<"Ok", <<GetSym(v[2])>>>>
      [] v[1] = "List" ->
            LET l == v[2] IN
            IF l = <<>> THEN <<"Err", EmptyExpression>>
            ELSE IF l[1] = ValSymbol("quote") THEN
                IF Len(l) = 2 THEN <<"Ok", <<PushConst(l[2])>>>>
                ELSE <<"Err", InvalidExpression>>
            ELSE IF l[1] \in {ValSymbol("def"), ValSymbol("set")} THEN
                IF Len(l) = 3 /\ l[2][1] = "Symbol"
                THEN LET c == Compile(l[3]) IN
                     IF c[1] = "Err" THEN c
                     ELSE <<"Ok", Append(c[2], IF l[1] = ValSymbol("def")
                                               THEN DefSym(l[2][2])
                                               ELSE SetSym(l[2][2]))>>
                ELSE <<"Err", InvalidExpression>>
            ELSE IF l[1] = ValSymbol("begin") THEN
                IF Len(l) = 1 THEN <<"Ok", <<PushConst(ValNil)>>>>
                ELSE CompileAll(Tail(l), 1, <<PopTop>>)
            ELSE IF l[1] = ValSymbol("yield") THEN
                IF Len(l) = 2
                THEN LET c == Compile(l[2]) IN
                     IF c[1] = "Err" THEN c ELSE <<"Ok", Append(c[2], Yield)>>
                ELSE <<"Err", InvalidExpression>>
            ELSE LET c == CompileAll(l, 1, <<>>) IN
                 IF c[1] = "Err" THEN c
                 ELSE <<"Ok", Append(c[2], CallFunc(Len(l) - 1))>>
      [] OTHER -> <<"Err", InvalidExpression>>

-----------------------------------------------------------------------------
(* lemma/src/fiber.rs: the fiber as a record [cframes, stack, envs,        *)
(* locals]                                                                 *)

CallFrameFromBytecode(env, code) == [ip |-> 0, code |-> code, env |-> env]

TopFrame(f) == f.cframes[Len(f.cframes)]

\* CallFrame::is_done
IsDone(frame) == frame.ip = Len(frame.code)

\* Fiber::at_end
AtEnd(f) == Len(f.cframes) = 1 /\ IsDone(f.cframes[1])

\* Fiber::inst: the instruction at ip, or <<"None">>
FetchInst(f) ==
    LET top == TopFrame(f) IN
    IF top.ip < Len(top.code) THEN <<"Some", top.code[top.ip + 1]>>
    ELSE <<"None">>

\* f.top_mut().ip += n
AdvanceIp(f, n) ==
    [f EXCEPT !.cframes[Len(f.cframes)].ip = @ + n]

Sig(f, s) == [f |-> f, sig |-> s]
SigOk       == <<"Ok">>
SigErr(e)   == <<"Err", e>>
SigYield(v) == <<"Yield", v>>
SigPanic    == <<"Panic">>

\* Inst::PushConst
DoPushConst(f, v) == Sig([f EXCEPT !.stack = Push(@, v)], SigOk)

\* a DefSym that assigns in the enclosing frame that defines the symbol,
\* when there is one
DoDefSymInDefiner(f, s) ==
    IF f.stack = <<>> THEN Sig(f, SigErr(UnexpectedStack))
    ELSE Sig([f EXCEPT !.envs =
                IF EnvSet(f.envs, TopFrame(f).env, s, Top(f.stack)).ok
                THEN EnvSet(f.envs, TopFrame(f).env, s, Top(f.stack)).heap
                ELSE [@ EXCEPT ![TopFrame(f).env] =
                         EnvDefine(@, s, Top(f.stack))]],
             SigOk)

\* Inst::DefSym
DoDefSym(f, s) ==
    IF f.stack = <<>> THEN Sig(f, SigErr(UnexpectedStack))
    ELSE Sig([f EXCEPT !.envs[TopFrame(f).env] = EnvDefine(@, s, Top(f.stack))],
             SigOk)

\* a SetSym that defines an undefined symbol in the current frame
DoSetSymDefines(f, s) ==
    IF f.stack = <<>> THEN Sig(f, SigErr(UnexpectedStack))
    ELSE LET r == EnvSet(f.envs, TopFrame(f).env, s, Top(f.stack)) IN
         IF r.ok THEN Sig([f EXCEPT !.envs = r.heap], SigOk)
         ELSE Sig([f EXCEPT !.envs[TopFrame(f).env] = EnvDefine(@, s, Top(f.stack))],
                  SigOk)

\* Inst::SetSym
DoSetSym(f, s) ==
    IF f.stack = <<>> THEN Sig(f, SigErr(UnexpectedStack))
    ELSE LET r == EnvSet(f.envs, TopFrame(f).env, s, Top(f.stack)) IN
         IF r.ok THEN Sig([f EXCEPT !.envs = r.heap], SigOk)
         ELSE Sig(f, SigErr(UndefinedSymbol(s)))

\* a lookup that prefers the outermost frame that defines the symbol
RECURSIVE EnvGetOuterFirst(_, _, _)
EnvGetOuterFirst(heap, e, s) ==
    IF heap[e].parent # NoEnv
       /\ EnvGetOuterFirst(heap, heap[e].parent, s)[1] = "Some"
    THEN EnvGetOuterFirst(heap, heap[e].parent, s)
    ELSE IF s \in DOMAIN heap[e].vars THEN <<"Some", heap[e].vars[s]>>
         ELSE <<"None">>

\* a GetSym an outer binding shadows the inner ones of
DoGetSymOuterFirst(f, s) ==
    IF EnvGetOuterFirst(f.envs, TopFrame(f).env, s)[1] = "Some"
    THEN Sig([f EXCEPT !.stack =
                Push(@, EnvGetOuterFirst(f.envs, TopFrame(f).env, s)[2])],
             SigOk)
    ELSE Sig(f, SigErr(UndefinedSymbol(s)))

\* Inst::GetSym
DoGetSym(f, s) ==
    LET r == EnvGet(f.envs, TopFrame(f).env, s) IN
    IF r[1] = "Some" THEN Sig([f EXCEPT !.stack = Push(@, r[2])], SigOk)
    ELSE Sig(f, SigErr(UndefinedSymbol(s)))

\* a MakeFunc whose lambda captures a copy of the environment
DoMakeFuncCopiesEnv(f) ==
    IF f.stack = <<>> THEN Sig(f, SigErr(UnexpectedStack))
    ELSE
    LET code == Top(f.stack)
        f1   == [f EXCEPT !.stack = Pop(@)]
    IN
    IF code[1] # "Bytecode" THEN Sig(f1, SigErr(UnexpectedStack))
    ELSE IF f1.stack = <<>> THEN Sig(f1, SigErr(UnexpectedStack))
    ELSE
    LET params == Top(f1.stack)
        f2     == [f1 EXCEPT !.stack = Pop(@)]
    IN
    IF params[1] # "List" THEN Sig(f2, SigErr(UnexpectedStack))
    ELSE IF \E i \in 1..Len(params[2]) : params[2][i][1] # "Symbol"
    THEN Sig(f2, SigErr(UnexpectedStack))
    ELSE Sig([f2 EXCEPT
                !.envs = Append(@, f.envs[TopFrame(f).env]),
                !.stack =
                 Push(@, ValLambda([i \in 1..Len(params[2]) |-> params[2][i][2]],
                                   code[2], Len(f.envs) + 1))],
             SigOk)

\* Inst::MakeFunc
DoMakeFunc(f) ==
    IF f.stack = <<>> THEN Sig(f, SigErr(UnexpectedStack))
    ELSE
    LET code == Top(f.stack)
        f1   == [f EXCEPT !.stack = Pop(@)]
    IN
    IF code[1] # "Bytecode" THEN Sig(f1, SigErr(UnexpectedStack))
    ELSE IF f1.stack = <<>> THEN Sig(f1, SigErr(UnexpectedStack))
    ELSE
    LET params == Top(f1.stack)
        f2     == [f1 EXCEPT !.stack = Pop(@)]
    IN
    IF params[1] # "List" THEN Sig(f2, SigErr(UnexpectedStack))
    ELSE IF \E i \in 1..Len(params[2]) : params[2][i][1] # "Symbol"
    THEN Sig(f2, SigErr(UnexpectedStack))
    ELSE Sig([f2 EXCEPT !.stack =
                 Push(@, ValLambda([i \in 1..Len(params[2]) |-> params[2][i][2]],
                                   code[2], TopFrame(f).env))],
             SigOk)

\* for (s, arg) in l.params.iter().zip(args) { fn_env.define(s, arg) }
RECURSIVE DefineParams(_, _, _, _)
DefineParams(env, params, args, i) ==
    IF i > Len(params) \/ i > Len(args) THEN env
    ELSE DefineParams(EnvDefine(env, params[i], args[i]), params, args, i + 1)

\* the environment of a lambda's call frame
LambdaCallEnv(f, l, args) == DefineParams(EnvExtend(l[4]), l[2], args, 1)

\* builtin.rs peval_fn, defined below with the nested fiber it runs
RECURSIVE PevalFn(_, _)

\* embedding.rs get_local: f.locals().val as an Int
GetLocalFn(f, args) == <<"Return", ValInt(f.locals)>>

\* embedding.rs inc_local: one Int, anything else panics; gives Nil
IncLocalFn(f, args) ==
    IF Len(args) = 1 /\ args[1][1] = "Int" /\ ~AddOverflows(f.locals, args[1][2])
    THEN <<"Return", ValNil>>
    ELSE <<"Panic">>

\* an inc_local that stores its argument
IncLocalSets(f, name, args) ==
    IF name = "inc_local" /\ IncLocalFn(f, args)[1] = "Return"
    THEN args[1][2]
    ELSE f.locals

\* the locals as the native leaves them: inc_local does
\* f.locals_mut().val += v, no other native writes them
LocalsAfter(f, name, args) ==
    IF name = "inc_local" /\ IncLocalFn(f, args)[1] = "Return"
    THEN f.locals + args[1][2]
    ELSE f.locals

\* (n.func)(view of f, args): the value the native gives and the
\* environments as the native leaves them
CallNative(f, name, args) ==
    CASE name = "peval"     -> PevalFn(f, args)
      [] name = "get_local" -> [res |-> GetLocalFn(f, args), envs |-> f.envs]
      [] name = "inc_local" -> [res |-> IncLocalFn(f, args), envs |-> f.envs]
      [] OTHER -> [res |-> NativeCall(name, args), envs |-> f.envs]

\* a native yield that reserves no slot
NativeYieldNoSlot(f, v) == Sig(f, SigYield(v))

\* a native returned NativeFnVal::Yield(v): one slot of the operand stack
\* is reserved for the value of the next resume_from_yield
NativeYield(f, v) == Sig([f EXCEPT !.stack = Push(@, ResumeSlot)], SigYield(v))

\* a native returned a value: it is pushed
NativeReturn(f, v) == Sig([f EXCEPT !.stack = Push(@, v)], SigOk)

\* what run does with the result nat of a native: let v = (n.func)(..)?
NativeOutcome(f, nat) ==
    CASE nat.res[1] = "Return" ->
            NativeReturn([f EXCEPT !.envs = nat.envs], nat.res[2])
      [] nat.res[1] = "Yield" ->
            NativeYield([f EXCEPT !.envs = nat.envs], nat.res[2])
      [] nat.res[1] = "Err" ->
            Sig([f EXCEPT !.envs = nat.envs], SigErr(nat.res[2]))
      [] OTHER ->
            Sig([f EXCEPT !.envs = nat.envs], SigPanic)

\* Inst::CallFunc(nargs)
DoCallFunc(f, nargs) ==
    IF Len(f.stack) < nargs
    THEN Sig([f EXCEPT !.stack = <<>>], SigErr(UnexpectedStack))
    ELSE
    LET n    == Len(f.stack)
        args == SubSeq(f.stack, n - nargs + 1, n)
        f1   == [f EXCEPT !.stack = SubSeq(@, 1, n - nargs)]
    IN
    IF f1.stack = <<>> THEN Sig(f1, SigErr(UnexpectedStack))
    ELSE
    LET callee == Top(f1.stack)
        f2     == [f1 EXCEPT !.stack = Pop(@)]
    IN
    CASE callee[1] = "NativeFn" ->
            NativeOutcome([f2 EXCEPT !.locals = LocalsAfter(f2, callee[2], args)],
                          CallNative(f2, callee[2], args))
      [] callee[1] = "Lambda" ->
            Sig([f2 EXCEPT
                   !.envs = Append(@, LambdaCallEnv(f2, callee, args)),
                   !.cframes = Append(@, CallFrameFromBytecode(Len(f2.envs) + 1,
                                                               callee[3]))],
                SigOk)
      [] OTHER -> Sig(f2, SigErr(UnexpectedStack))

\* a PopTop that hands the popped value to the host
DoPopTopSuspends(f) ==
    IF f.stack = <<>> THEN Sig(f, SigErr(UnexpectedStack))
    ELSE Sig([f EXCEPT !.stack = Pop(@)], SigYield(Top(f.stack)))

\* a PopTop that lets an empty stack pass
DoPopTopIgnoresEmpty(f) ==
    IF f.stack = <<>> THEN Sig(f, SigOk)
    ELSE Sig([f EXCEPT !.stack = Pop(@)], SigOk)

\* Inst::PopTop
DoPopTop(f) ==
    IF f.stack = <<>> THEN Sig(f, SigErr(UnexpectedStack))
    ELSE Sig([f EXCEPT !.stack = Pop(@)], SigOk)

\* a jump that counts the instruction after it among the skipped ones
DoJumpFwdFromHere(f, offset) == Sig(AdvanceIp(f, offset - 1), SigOk)

\* Inst::JumpFwd(offset)
DoJumpFwd(f, offset) == Sig(AdvanceIp(f, offset), SigOk)

\* Inst::PopJumpFwdIfTrue(_) => todo!()
DoPopJumpFwdIfTrue(f, offset) == Sig(f, SigPanic)

\* Inst::JumpBck(offset): ip -= offset, counted from the instruction after
\* the jump
DoJumpBck(f, offset) == Sig(AdvanceIp(f, 0 - offset), SigOk)

\* a Yield that keeps its operand and reserves a further slot
DoYieldKeepsOperand(f) ==
    IF f.stack = <<>> THEN Sig(f, SigErr(UnexpectedStack))
    ELSE Sig([f EXCEPT !.stack = Push(@, ResumeSlot)], SigYield(Top(f.stack)))

\* Inst::Yield: pop one value v and suspend with Yield(v); the popped
\* operand's place is the slot the next resume_from_yield fills
DoYield(f) ==
    IF f.stack = <<>> THEN Sig(f, SigErr(UnexpectedStack))
    ELSE Sig([f EXCEPT !.stack = SetTop(@, ResumeSlot)], SigYield(Top(f.stack)))

\* match inst { ... } of run
Dispatch(f, inst) ==
    CASE inst[1] = "PushConst"        -> DoPushConst(f, inst[2])
      [] inst[1] = "DefSym"           -> DoDefSym(f, inst[2])
      [] inst[1] = "SetSym"           -> DoSetSym(f, inst[2])
      [] inst[1] = "GetSym"           -> DoGetSym(f, inst[2])
      [] inst[1] = "MakeFunc"         -> DoMakeFunc(f)
      [] inst[1] = "CallFunc"         -> DoCallFunc(f, inst[2])
      [] inst[1] = "PopTop"           -> DoPopTop(f)
      [] inst[1] = "JumpFwd"          -> DoJumpFwd(f, inst[2])
      [] inst[1] = "PopJumpFwdIfTrue" -> DoPopJumpFwdIfTrue(f, inst[2])
      [] inst[1] = "Yield"            -> DoYield(f)
      [] inst[1] = "JumpBck"          -> DoJumpBck(f, inst[2])

\* while f.cframes.len() > 1 && f.top().is_done() { f.cframes.pop(); }
\* a single pop where the loop pops every finished frame
PopOneCompleted(f) ==
    IF Len(f.cframes) > 1 /\ IsDone(TopFrame(f))
    THEN [f EXCEPT !.cframes = Pop(@)]
    ELSE f

\* a pop that does not spare the root frame
PopCompletedOrRoot(f) ==
    IF IsDone(TopFrame(f)) THEN [f EXCEPT !.cframes = Pop(@)] ELSE f

RECURSIVE PopCompleted(_)
PopCompleted(f) ==
    IF Len(f.cframes) > 1 /\ IsDone(TopFrame(f))
    THEN PopCompleted([f EXCEPT !.cframes = Pop(@)])
    ELSE f

\* run(f) as a function of the fiber, for the nested fiber of peval:
\* [sig, envs] with sig the result <<"Done", v>>, <<"Yield", v>>,
\* <<"Err", e>> or <<"Panic">> and envs the environments afterwards.
\* A fiber that has not returned after `fuel` iterations never does: its
\* call frames grow until the process aborts.
RECURSIVE RunFiber(_, _)

\* the end of an iteration: the result of a fiber whose root frame is
\* exhausted, or the next iteration
RunAtEnd(f1, fuel) ==
    IF AtEnd(f1)
    THEN IF f1.stack = <<>>
         THEN [sig |-> SigErr(UnexpectedStack), envs |-> f1.envs]
         ELSE [sig |-> <<"Done", Top(f1.stack)>>, envs |-> f1.envs]
    ELSE RunFiber(f1, fuel - 1)

\* after the match: an error, yield or panic leaves run, otherwise the
\* completed frames are popped
RunAfterInst(d, fuel) ==
    IF d.sig # SigOk THEN [sig |-> d.sig, envs |-> d.f.envs]
    ELSE RunAtEnd(PopCompleted(d.f), fuel)

RunFiber(f, fuel) ==
    IF fuel = 0 THEN [sig |-> SigPanic, envs |-> f.envs]
    ELSE IF FetchInst(f)[1] = "None"
    THEN [sig |-> SigErr(NoMoreBytecode), envs |-> f.envs]
    ELSE RunAfterInst(Dispatch(AdvanceIp(f, 1), FetchInst(f)[2]), fuel)

\* a nested fiber that runs in a copy of the root environment
NestedFiberOwnEnv(f, code) ==
    [cframes |-> <<CallFrameFromBytecode(Len(f.envs) + 1, code)>>,
     stack   |-> <<>>,
     envs    |-> Append(f.envs, f.envs[1]),
     locals  |-> f.locals]

\* Fiber::from_val(v)?.with_env(f.env()): a fiber for the compiled value
\* whose root frame runs in the caller's current environment
NestedFiber(f, code) ==
    [cframes |-> <<CallFrameFromBytecode(TopFrame(f).env, code)>>,
     stack   |-> <<>>,
     envs    |-> f.envs,
     locals  |-> f.locals]

\* a peval that hands the nested fiber's error on as its own
PevalResultPropagates(r) ==
    CASE r.sig[1] = "Done"  -> [res |-> <<"Return", r.sig[2]>>, envs |-> r.envs]
      [] r.sig[1] = "Yield" -> [res |-> <<"Yield", r.sig[2]>>, envs |-> r.envs]
      [] r.sig[1] = "Err"   -> [res |-> r.sig, envs |-> r.envs]
      [] OTHER              -> [res |-> <<"Panic">>, envs |-> r.envs]

\* match f.resume() { Done(v) => Return(v), Yield(v) => Yield(v),
\*                    Err(e) => Return(Val::Error(e)) }
\* the nested fiber is a local of the native and is gone when it returns
PevalResult(r) ==
    CASE r.sig[1] = "Done"  -> [res |-> <<"Return", r.sig[2]>>, envs |-> r.envs]
      [] r.sig[1] = "Yield" -> [res |-> <<"Yield", r.sig[2]>>, envs |-> r.envs]
      [] r.sig[1] = "Err"   -> [res |-> <<"Return", ValError(r.sig[2])>>,
                                envs |-> r.envs]
      [] OTHER              -> [res |-> <<"Panic">>, envs |-> r.envs]

\* Fiber::from_val(v)?: a value that does not compile is the native's Err
PevalCompiled(f, c) ==
    IF c[1] = "Err" THEN [res |-> c, envs |-> f.envs]
    ELSE PevalResult(RunFiber(NestedFiber(f, c[2]), MaxNested))

\* builtin.rs peval_fn: one argument, compiled and run in a nested fiber
\* that shares the caller's environment
PevalFn(f, args) ==
    IF Len(args) # 1 THEN [res |-> <<"Err", InvalidExpression>>, envs |-> f.envs]
    ELSE PevalCompiled(f, Compile(args[1]))

-----------------------------------------------------------------------------
(* The programs a fiber is built from *)

\* the expression (op a b)
Expr3(op, a, b) == ValList(<<ValSymbol(op), a, b>>)

\* instructions the generated bytecode sequences are made of
InstAlphabet ==
    { PushConst(ValInt(1)), PushConst(ValNil),
      DefSym("x"), SetSym("x"), GetSym("x"), GetSym("echo_yield"),
      GetSym("peval"),
      CallFunc(0), CallFunc(1), PopTop, JumpFwd(1), PopJumpFwdIfTrue(1),
      MakeFunc, Yield }

Generated == UNION { [1..n -> InstAlphabet] : n \in 0..MaxLen }

\* (begin (def x 0) (defn f () (set x (+ x (yield x))) (f)) (f))
\* embedding.rs fiber_yielding_by_arg
YieldingByArgBody ==
    << GetSym("+"), GetSym("x"), GetSym("x"), Yield, CallFunc(2), SetSym("x"),
       PopTop, GetSym("f"), CallFunc(0) >>

YieldingByArg ==
    << PushConst(ValInt(0)), DefSym("x"), PopTop,
       PushConst(ValList(<<>>)), PushConst(ValBytecode(YieldingByArgBody)),
       MakeFunc, DefSym("f"), PopTop, GetSym("f"), CallFunc(0) >>

\* (begin (def x 0) (defn f () (yield x) (set x (+ x 1)) (f)) (f))
\* embedding.rs fiber_yielding
YieldingBody ==
    << GetSym("x"), Yield, PopTop,
       GetSym("+"), GetSym("x"), PushConst(ValInt(1)), CallFunc(2), SetSym("x"),
       PopTop, GetSym("f"), CallFunc(0) >>

Yielding ==
    << PushConst(ValInt(0)), DefSym("x"), PopTop,
       PushConst(ValList(<<>>)), PushConst(ValBytecode(YieldingBody)),
       MakeFunc, DefSym("f"), PopTop, GetSym("f"), CallFunc(0) >>

\* (loop body...): the body, its value dropped, and the jump back to the
\* first instruction of the body
LoopOf(body) == body \o << PopTop, JumpBck(Len(body) + 2) >>

\* (begin (def x 0) (loop (set x (+ x (yield x)))))
\* embedding.rs fiber_looping_yield
LoopingYield ==
    << PushConst(ValInt(0)), DefSym("x"), PopTop >>
    \o LoopOf(<< GetSym("+"), GetSym("x"), GetSym("x"), Yield, CallFunc(2),
                 SetSym("x") >>)

\* (loop (send_conn (peval (recv_conn))))
\* embedding.rs fiber_conn_recv_peval_sim
ReplSim ==
    LoopOf(<< GetSym("send_conn"), GetSym("peval"), GetSym("recv_conn"),
              CallFunc(0), CallFunc(1), CallFunc(1) >>)

\* (loop jibberish): the body fails
LoopUndefined == LoopOf(<< GetSym("jibberish") >>)

\* (loop 1): the body neither suspends nor fails
LoopNoYield == LoopOf(<< PushConst(ValInt(1)) >>)

\* (begin (loop (yield 1)) 7): an expression follows the loop
LoopThen == LoopOf(<< PushConst(ValInt(1)), Yield >>) \o << PopTop, PushConst(ValInt(7)) >>

\* (begin (inc_local (+ 9 (get_local))) (inc_local 1) (inc_local 2)
\*        (get_local))         embedding.rs get_set_locals
GetSetLocals ==
    << GetSym("inc_local"), GetSym("+"), PushConst(ValInt(9)),
       GetSym("get_local"), CallFunc(0), CallFunc(2), CallFunc(1), PopTop,
       GetSym("inc_local"), PushConst(ValInt(1)), CallFunc(1), PopTop,
       GetSym("inc_local"), PushConst(ValInt(2)), CallFunc(1), PopTop,
       GetSym("get_local"), CallFunc(0) >>

\* (+ (get_local) (begin (inc_local 1) (get_local))): the second argument
\* writes what the first reads
ArgsInOrderExpr ==
    Expr3("+", ValList(<<ValSymbol("get_local")>>),
          ValList(<< ValSymbol("begin"),
                     ValList(<<ValSymbol("inc_local"), ValInt(1)>>),
                     ValList(<<ValSymbol("get_local")>>) >>))

ArgsInOrder == Compile(ArgsInOrderExpr)[2]

\* the programs that use the fiber's locals
LocalsPrograms == { GetSetLocals, ArgsInOrder }

\* (echo_yield :one :two)   embedding.rs fiber_yielding_native_binding
EchoYieldProg ==
    << GetSym("echo_yield"), PushConst(ValKeyword("one")),
       PushConst(ValKeyword("two")), CallFunc(2) >>

\* (+ 1 (yield 2))
PlusYieldProg ==
    << GetSym("+"), PushConst(ValInt(1)), PushConst(ValInt(2)), Yield,
       CallFunc(2) >>

\* ((lambda (x) x) "hello")   fiber.rs call_func_lambda
CallFuncLambda ==
    << PushConst(ValList(<<ValSymbol("x")>>)),
       PushConst(ValBytecode(<<GetSym("x")>>)), MakeFunc,
       PushConst(ValString("hello")), CallFunc(1) >>

\* (((lambda (x) (lambda () x)) "hello"))   fiber.rs call_func_nested
CallFuncNested ==
    << PushConst(ValList(<<ValSymbol("x")>>)),
       PushConst(ValBytecode(<< PushConst(ValList(<<>>)),
                                PushConst(ValBytecode(<<GetSym("x")>>)),
                                MakeFunc >>)),
       MakeFunc, PushConst(ValString("hello")), CallFunc(1), CallFunc(0) >>

\* fiber.rs jump_fwd (shortened)
JumpFwdProg ==
    << PushConst(ValString("this")), JumpFwd(2),
       PushConst(ValString("notthis")), PushConst(ValString("notthis")) >>

\* a lambda whose body jumps over its last instruction, to its end
JumpInLambda ==
    << PushConst(ValList(<<>>)),
       PushConst(ValBytecode(<< PushConst(ValInt(1)), JumpFwd(1),
                                PushConst(ValInt(2)) >>)),
       MakeFunc, CallFunc(0) >>

\* embedding.rs fiber_invalid_bytecode followed by an instruction
PopTopThenPush == << PopTop, PushConst(ValInt(1)) >>

\* (set x (+ x 1))
IncBody ==
    << GetSym("+"), GetSym("x"), PushConst(ValInt(1)), CallFunc(2), SetSym("x") >>

\* (begin (def x 0) (defn inc () (set x (+ x 1))) (inc) (inc) x)
IncTwice ==
    << PushConst(ValInt(0)), DefSym("x"), PopTop,
       PushConst(ValList(<<>>)), PushConst(ValBytecode(IncBody)), MakeFunc,
       DefSym("inc"), PopTop,
       GetSym("inc"), CallFunc(0), PopTop,
       GetSym("inc"), CallFunc(0), PopTop,
       GetSym("x") >>

\* (begin (def x 0) ((lambda () (def x 2) x)) x)
ShadowDef ==
    << PushConst(ValInt(0)), DefSym("x"), PopTop,
       PushConst(ValList(<<>>)),
       PushConst(ValBytecode(<< PushConst(ValInt(2)), DefSym("x"), PopTop,
                                GetSym("x") >>)),
       MakeFunc, CallFunc(0), PopTop, GetSym("x") >>

\* (begin (def x 0) ((lambda (x) (set x 2)) 1) x)
ShadowSet ==
    << PushConst(ValInt(0)), DefSym("x"), PopTop,
       PushConst(ValList(<<ValSymbol("x")>>)),
       PushConst(ValBytecode(<<PushConst(ValInt(2)), SetSym("x")>>)), MakeFunc,
       PushConst(ValInt(1)), CallFunc(1), PopTop,
       GetSym("x") >>

\* ((lambda (a b) a) 1 2)
CallTwoArgs ==
    << PushConst(ValList(<<ValSymbol("a"), ValSymbol("b")>>)),
       PushConst(ValBytecode(<<GetSym("a")>>)), MakeFunc,
       PushConst(ValInt(1)), PushConst(ValInt(2)), CallFunc(2) >>

\* ((lambda (x) x)): a parameter and no argument
CallTooFew ==
    << PushConst(ValList(<<ValSymbol("x")>>)),
       PushConst(ValBytecode(<<GetSym("x")>>)), MakeFunc, CallFunc(0) >>

\* ((lambda () 1) 2): an argument and no parameter
CallTooMany ==
    << PushConst(ValList(<<>>)),
       PushConst(ValBytecode(<<PushConst(ValInt(1))>>)), MakeFunc,
       PushConst(ValInt(2)), CallFunc(1) >>

\* the call (peval 'e)
PevalOf(e) == << GetSym("peval"), PushConst(e), CallFunc(1) >>

\* (peval) followed by an instruction: the native returns Err
PevalNoArg == << GetSym("peval"), CallFunc(0), PushConst(ValInt(1)) >>

\* (peval 'jibberish)
PevalUndefined == PevalOf(ValSymbol("jibberish"))

\* (begin (def x 3) (peval 'jibberish) (peval '(set x (+ x x))))
\* embedding.rs fiber_conn_recv_peval_sim, the expressions the host sends
PevalAfterError ==
    << PushConst(ValInt(3)), DefSym("x"), PopTop >>
    \o PevalOf(ValSymbol("jibberish")) \o << PopTop >>
    \o PevalOf(Expr3("set", ValSymbol("x"),
                     Expr3("+", ValSymbol("x"), ValSymbol("x"))))

\* (begin (peval '(begin (def y 2) jibberish)) y)
PevalFailKeepsDef ==
    PevalOf(ValList(<<ValSymbol("begin"),
                      Expr3("def", ValSymbol("y"), ValInt(2)),
                      ValSymbol("jibberish")>>))
    \o << PopTop, GetSym("y") >>

\* (begin (def x 1) (peval '(set x (+ x 2))) (peval '(def y x)) y)
PevalSharesEnv ==
    << PushConst(ValInt(1)), DefSym("x"), PopTop >>
    \o PevalOf(Expr3("set", ValSymbol("x"),
                     Expr3("+", ValSymbol("x"), ValInt(2)))) \o << PopTop >>
    \o PevalOf(Expr3("def", ValSymbol("y"), ValSymbol("x")))
    \o << PopTop, GetSym("y") >>

\* (begin ((lambda (y) (peval '(def z y))) 5) z)
PevalInLambda ==
    << PushConst(ValList(<<ValSymbol("y")>>)),
       PushConst(ValBytecode(PevalOf(Expr3("def", ValSymbol("z"),
                                           ValSymbol("y"))))),
       MakeFunc, PushConst(ValInt(5)), CallFunc(1), PopTop, GetSym("z") >>

\* (peval '(+ 1 (yield 2)))
PevalYield ==
    PevalOf(Expr3("+", ValInt(1), ValList(<<ValSymbol("yield"), ValInt(2)>>)))

\* (begin 7 ((lambda ()))) without the PopTop between: a lambda whose body
\* has no instructions, called with a value of the caller below it
CallEmptyLambda ==
    << PushConst(ValInt(7)), PushConst(ValList(<<>>)),
       PushConst(ValBytecode(<<>>)), MakeFunc, CallFunc(0) >>

\* ((lambda () ((lambda () 1)))): the inner call is the last instruction of
\* the outer body, so both frames are finished when the inner one is
TailCall ==
    << PushConst(ValList(<<>>)),
       PushConst(ValBytecode(<< PushConst(ValList(<<>>)),
                                PushConst(ValBytecode(<<PushConst(ValInt(1))>>)),
                                MakeFunc, CallFunc(0) >>)),
       MakeFunc, CallFunc(0), PopTop, PushConst(ValInt(2)) >>

Catalogue ==
    { YieldingByArg, Yielding, EchoYieldProg, PlusYieldProg, CallFuncLambda,
      CallFuncNested, JumpFwdProg, PopTopThenPush, IncTwice, ShadowSet,
      CallTwoArgs, CallTooFew, CallTooMany, PevalNoArg, PevalUndefined,
      PevalAfterError, PevalFailKeepsDef, PevalSharesEnv, PevalInLambda,
      PevalYield, GetSetLocals, ArgsInOrder, LoopingYield, ReplSim, LoopUndefined, LoopNoYield, LoopThen,
      CallEmptyLambda, TailCall, ShadowDef,
      JumpInLambda }

Programs == Generated \cup Catalogue

\* values the host resumes a fiber with
ResumeVals == { ValNil, ValInt(1), ValInt(2), ValInt(I32Max) }

-----------------------------------------------------------------------------
(* The fiber of lemma/src/fiber.rs driven by a host *)

Fiber == [cframes |-> cframes, stack |-> stack, envs |-> envs,
          locals |-> locals]

GlobalEnv == 1

\* Fiber::bind for every native of the host
RECURSIVE BindAll(_, _)
BindAll(env, names) ==
    IF names = {} THEN env
    ELSE LET n == CHOOSE x \in names : TRUE IN
         BindAll(EnvDefine(env, n, ValNativeFn(n)), names \ {n})

\* Fiber::from_bytecode
FromBytecode(code) ==
    [cframes |-> <<CallFrameFromBytecode(GlobalEnv, code)>>,
     stack   |-> <<>>,
     envs    |-> <<BindAll(EmptyEnv, Natives)>>]

\* embedding.rs: the locals a fiber is constructed with, locals() for
\* every program but the one of get_set_locals
InitLocals(code) == IF code \in LocalsPrograms THEN {0, 15} ELSE {0}

NoRet == <<"None">>

\* no pair of fibers was constructed
InitPairIdle ==
    /\ fibers = <<>>
    /\ arena = <<>>

\* no conversion is under way
InitConvIdle == conv = [stage |-> "idle"]

\* no Runtime was created
InitRuntimeIdle ==
    /\ runtime = "none"
    /\ evloop_rx = <<>>
    /\ evloop = [pc |-> "none"]
    /\ clients = <<>>
    /\ oneshots = <<>>
    /\ tasks = <<>>

Init2Idle ==
    /\ cframes2 = <<>>
    /\ stack2 = <<>>
    /\ status2 = <<"New">>
    /\ envs2 = <<>>
    /\ pc2 = "host"
    /\ ret2 = NoRet

Init ==
    /\ \E code \in Programs :
          LET f == FromBytecode(code) IN
          /\ cframes = f.cframes
          /\ stack = f.stack
          /\ envs = f.envs
          /\ locals \in InitLocals(code)
    /\ pc = "host"
    /\ ret = NoRet
    /\ call = <<"none">>
    /\ resumes = 0
    /\ Init2Idle
    /\ InitPairIdle
    /\ InitConvIdle
    /\ InitRuntimeIdle

\* a fiber no call was made on
IsFresh == call = <<"none">>

\* a fiber suspended at a yield: the resume slot is on top of the stack
IsSuspended == stack # <<>> /\ Top(stack) = ResumeSlot

\* Fiber::resume: run(self).  (What resume() does on a suspended fiber is
\* stated nowhere; the host of the tests resumes a suspended fiber with
\* resume_from_yield, and so does this one.)
Resume ==
    /\ pc = "host"
    /\ ~IsSuspended
    /\ resumes < MaxResumes
    /\ pc' = "fetch"
    /\ call' = <<"resume">>
    /\ resumes' = resumes + 1
    /\ UNCHANGED <<cframes, stack, envs, locals, ret, vars2, vars3, vars4, vars5>>

\* the fiber after resume_from_yield(r) put r in the resume slot
FillSlot(f, r) == [f EXCEPT !.stack = SetTop(@, r)]

\* a resume_from_yield that pushes r whether or not a slot awaits it
ResumeFromYieldPushes(r) ==
    /\ pc = "host"
    /\ resumes < MaxResumes
    /\ IsSuspended \/ IsFresh
    /\ IF IsSuspended
       THEN /\ stack' = FillSlot(Fiber, r).stack
            /\ pc' = "after"
       ELSE /\ stack' = Push(stack, r)
            /\ pc' = "fetch"
    /\ call' = <<"resume_from_yield", r>>
    /\ resumes' = resumes + 1
    /\ UNCHANGED <<cframes, envs, locals, ret, vars2, vars3, vars4, vars5>>

\* Fiber::resume_from_yield(r): r replaces the resume slot and execution
\* proceeds after the suspension point; on a fresh fiber it is resume()
ResumeFromYield(r) ==
    /\ pc = "host"
    /\ resumes < MaxResumes
    /\ IsSuspended \/ IsFresh
    /\ IF IsSuspended
       THEN /\ stack' = FillSlot(Fiber, r).stack
            /\ pc' = "after"
       ELSE /\ stack' = stack
            /\ pc' = "fetch"
    /\ call' = <<"resume_from_yield", r>>
    /\ resumes' = resumes + 1
    /\ UNCHANGED <<cframes, envs, locals, ret, vars2, vars3, vars4, vars5>>

\* what run returns to the host for a signal of the dispatch
RetOf(sig) ==
    CASE sig[1] = "Err"   -> <<"Err", sig[2]>>
      [] sig[1] = "Yield" -> <<"Yield", sig[2]>>
      [] sig[1] = "Panic" -> <<"Panic">>

(* The fiber as a function: what a fiber becomes is computed from the      *)
(* fiber and the host's call alone.  A fiber is a record of the state of   *)
(* Spec: [cframes, stack, envs, locals, pc, ret, call, resumes].           *)

ThisFiber ==
    [cframes |-> cframes, stack |-> stack, envs |-> envs, locals |-> locals,
     pc |-> pc, ret |-> ret, call |-> call, resumes |-> resumes]

\* the part of the record that run works on
FiberOf(s) ==
    [cframes |-> s.cframes, stack |-> s.stack, envs |-> s.envs,
     locals |-> s.locals]

\* resume() / resume_from_yield(r) as the call c, on the fiber s
HostCallOf(s, c) ==
    IF c[1] = "resume_from_yield" /\ s.stack # <<>> /\ Top(s.stack) = ResumeSlot
    THEN [s EXCEPT !.stack = SetTop(@, c[2]), !.pc = "after", !.call = c,
                   !.resumes = @ + 1]
    ELSE [s EXCEPT !.pc = "fetch", !.call = c, !.resumes = @ + 1]

\* the fiber after the match of run gave d
AfterMatchOf(s, d) ==
    [s EXCEPT !.cframes = d.f.cframes, !.stack = d.f.stack,
              !.envs = d.f.envs, !.locals = d.f.locals,
              !.pc = IF d.sig = SigOk THEN "after" ELSE "host",
              !.ret = IF d.sig = SigOk THEN s.ret ELSE RetOf(d.sig)]

\* one iteration of the loop of run, up to the end of the match
StepOf(s) ==
    IF FetchInst(FiberOf(s))[1] = "None"
    THEN [s EXCEPT !.ret = <<"Err", NoMoreBytecode>>, !.pc = "host"]
    ELSE AfterMatchOf(s, Dispatch(AdvanceIp(FiberOf(s), 1),
                                  FetchInst(FiberOf(s))[2]))

\* the fiber whose completed frames were popped to f1: its result, or the
\* next iteration
AtEndOf(s, f1) ==
    IF AtEnd(f1)
    THEN IF s.stack = <<>>
         THEN [s EXCEPT !.cframes = f1.cframes, !.pc = "host",
                        !.ret = <<"Err", UnexpectedStack>>]
         ELSE [s EXCEPT !.cframes = f1.cframes, !.pc = "host",
                        !.ret = <<"Done", Top(s.stack)>>, !.stack = Pop(@)]
    ELSE [s EXCEPT !.cframes = f1.cframes, !.pc = "fetch"]

\* the rest of the iteration
AfterDispatchOf(s) == AtEndOf(s, PopCompleted(FiberOf(s)))

\* the fiber after its next step, the host's call being c
NextOf(s, c) ==
    CASE s.pc = "host"  -> HostCallOf(s, c)
      [] s.pc = "fetch" -> StepOf(s)
      [] s.pc = "after" -> AfterDispatchOf(s)

\* a step of run that may leave out its instruction
StepMaySkip ==
    /\ pc = "fetch"
    /\ Len(cframes) <= MaxFrames
    /\ \E skip \in BOOLEAN :
          LET s == IF skip /\ FetchInst(Fiber)[1] = "Some"
                   THEN [ThisFiber EXCEPT !.cframes = AdvanceIp(Fiber, 1).cframes,
                                          !.pc = "after"]
                   ELSE StepOf(ThisFiber)
          IN /\ cframes' = s.cframes
             /\ stack' = s.stack
             /\ envs' = s.envs
             /\ locals' = s.locals
             /\ pc' = s.pc
             /\ ret' = s.ret
    /\ UNCHANGED <<call, resumes, vars2, vars3, vars4, vars5>>

\* one iteration of the loop of run, up to the end of the match
Step ==
    /\ pc = "fetch"
    /\ Len(cframes) <= MaxFrames
    /\ LET i == FetchInst(Fiber) IN
       IF i[1] = "None"
       THEN /\ ret' = <<"Err", NoMoreBytecode>>
            /\ pc' = "host"
            /\ UNCHANGED <<cframes, stack, envs, locals>>
       ELSE LET d == Dispatch(AdvanceIp(Fiber, 1), i[2]) IN
            /\ cframes' = d.f.cframes
            /\ stack' = d.f.stack
            /\ envs' = d.f.envs
            /\ locals' = d.f.locals
            /\ IF d.sig = SigOk
               THEN pc' = "after" /\ ret' = ret
               ELSE pc' = "host" /\ ret' = RetOf(d.sig)
    /\ UNCHANGED <<call, resumes, vars2, vars3, vars4, vars5>>

\* a run that returns the result without popping it
AfterDispatchKeepsResult ==
    /\ pc = "after"
    /\ LET f1 == PopCompleted(Fiber) IN
       /\ cframes' = f1.cframes
       /\ IF AtEnd(f1)
          THEN /\ pc' = "host"
               /\ stack' = stack
               /\ IF stack = <<>>
                  THEN ret' = <<"Err", UnexpectedStack>>
                  ELSE ret' = <<"Done", Top(stack)>>
          ELSE /\ pc' = "fetch"
               /\ UNCHANGED <<ret, stack>>
    /\ UNCHANGED <<envs, locals, call, resumes, vars2, vars3, vars4, vars5>>

\* the rest of the iteration: implicit returns, then the result of a
\* fiber whose root frame is exhausted
AfterDispatch ==
    /\ pc = "after"
    /\ LET f1 == PopCompleted(Fiber) IN
       /\ cframes' = f1.cframes
       /\ IF AtEnd(f1)
          THEN /\ pc' = "host"
               /\ IF stack = <<>>
                  THEN ret' = <<"Err", UnexpectedStack>> /\ stack' = stack
                  ELSE ret' = <<"Done", Top(stack)>> /\ stack' = Pop(stack)
          ELSE /\ pc' = "fetch"
               /\ UNCHANGED <<ret, stack>>
    /\ UNCHANGED <<envs, locals, call, resumes, vars2, vars3, vars4, vars5>>

Next ==
    \/ Resume
    \/ \E r \in ResumeVals : ResumeFromYield(r)
    \/ Step
    \/ AfterDispatch

Spec == Init /\ [][Next]_vars

-----------------------------------------------------------------------------
(* lemma/src/v2/fiber.rs: a fiber with a Status, started by start.         *)
(* Values are Forms; a Lambda is <<"Lambda", params, code>> and carries no *)
(* environment.                                                            *)

FormLambda(p, c) == <<"Lambda", p, c>>

StoreSym(s) == <<"StoreSym", s>>
LoadSym(s)  == <<"LoadSym", s>>
BeginScope  == <<"BeginScope">>
EndScope    == <<"EndScope">>

(* Status *)
StatusNew          == <<"New">>
StatusRunning      == <<"Running">>
StatusYielded      == <<"Yielded">>
StatusCompleted(r) == <<"Completed", r>>
ResOk(v)  == <<"Ok", v>>
ResErr(e) == <<"Err", e>>

\* Inst::PushConst
DoPushConst2(f, v) == Sig([f EXCEPT !.stack = Push(@, v)], SigOk)

\* Inst::StoreSym
DoStoreSym2(f, s) ==
    IF f.stack = <<>> THEN Sig(f, SigErr(UnexpectedStack))
    ELSE Sig([f EXCEPT !.envs[TopFrame(f).env] = EnvDefine(@, s, Top(f.stack))],
             SigOk)

\* Inst::LoadSym
DoLoadSym2(f, s) ==
    LET r == EnvGet(f.envs, TopFrame(f).env, s) IN
    IF r[1] = "Some" THEN Sig([f EXCEPT !.stack = Push(@, r[2])], SigOk)
    ELSE Sig(f, SigErr(UndefinedSymbol(s)))

\* Inst::MakeFunc
DoMakeFunc2(f) ==
    IF f.stack = <<>> THEN Sig(f, SigErr(UnexpectedStack))
    ELSE
    LET code == Top(f.stack)
        f1   == [f EXCEPT !.stack = Pop(@)]
    IN
    IF code[1] # "Bytecode" THEN Sig(f1, SigErr(UnexpectedStack))
    ELSE IF f1.stack = <<>> THEN Sig(f1, SigErr(UnexpectedStack))
    ELSE
    LET params == Top(f1.stack)
        f2     == [f1 EXCEPT !.stack = Pop(@)]
    IN
    IF params[1] # "List" THEN Sig(f2, SigErr(UnexpectedStack))
    ELSE IF \E i \in 1..Len(params[2]) : params[2][i][1] # "Symbol"
    THEN Sig(f2, SigErr(UnexpectedStack))
    ELSE Sig([f2 EXCEPT !.stack =
                 Push(@, FormLambda([i \in 1..Len(params[2]) |-> params[2][i][2]],
                                    code[2]))],
             SigOk)

\* (0..nargs).map(|_| f.stack.pop()...).rev().collect(): the reversed map
\* is driven from its back, each call pops, so the first element collected
\* is the top of the stack
PopArgs2(stk, nargs) == [i \in 1..nargs |-> stk[Len(stk) + 1 - i]]

\* let mut fn_env = Env::extend(&f.top().env); then the parameters
LambdaCallEnv2(f, l, args) ==
    DefineParams(EnvExtend(TopFrame(f).env), l[2], args, 1)

\* Inst::CallFunc(nargs)
DoCallFunc2(f, nargs) ==
    IF Len(f.stack) < nargs
    THEN Sig([f EXCEPT !.stack = <<>>], SigErr(UnexpectedStack))
    ELSE
    LET args == PopArgs2(f.stack, nargs)
        f1   == [f EXCEPT !.stack = SubSeq(@, 1, Len(@) - nargs)]
    IN
    IF f1.stack = <<>> THEN Sig(f1, SigErr(UnexpectedStack))
    ELSE
    LET callee == Top(f1.stack)
        f2     == [f1 EXCEPT !.stack = Pop(@)]
    IN
    IF callee[1] # "Lambda" THEN Sig(f2, SigErr(UnexpectedStack))
    ELSE Sig([f2 EXCEPT
                !.envs = Append(@, LambdaCallEnv2(f2, callee, args)),
                !.cframes = Append(@, CallFrameFromBytecode(Len(f2.envs) + 1,
                                                            callee[3]))],
             SigOk)

\* match inst { ... } of run; PopTop, BeginScope and EndScope are todo!()
Dispatch2(f, inst) ==
    CASE inst[1] = "PushConst" -> DoPushConst2(f, inst[2])
      [] inst[1] = "StoreSym"  -> DoStoreSym2(f, inst[2])
      [] inst[1] = "LoadSym"   -> DoLoadSym2(f, inst[2])
      [] inst[1] = "MakeFunc"  -> DoMakeFunc2(f)
      [] inst[1] = "CallFunc"  -> DoCallFunc2(f, inst[2])
      [] OTHER                 -> Sig(f, SigPanic)

Fiber2 == [cframes |-> cframes2, stack |-> stack2, envs |-> envs2]

\* v2 Fiber::from_bytecode
FromBytecode2(code) ==
    [cframes |-> <<CallFrameFromBytecode(GlobalEnv, code)>>,
     stack   |-> <<>>,
     envs    |-> <<EmptyEnv>>]

\* instructions the generated v2 bytecode sequences are made of
InstAlphabet2 ==
    { PushConst(ValInt(1)), PushConst(ValList(<<ValSymbol("x")>>)),
      PushConst(ValBytecode(<<LoadSym("x")>>)),
      PushConst(FormLambda(<<>>, <<PushConst(ValInt(2))>>)),
      PushConst(FormLambda(<<"x">>, <<LoadSym("x")>>)),
      StoreSym("x"), LoadSym("x"), MakeFunc, CallFunc(0), CallFunc(1),
      PopTop }

Generated2 == UNION { [1..n -> InstAlphabet2] : n \in 0..MaxLen }

\* (def f (lambda () y)) ((lambda (y) (f)) 1): f is created in the root
\* scope, where y is not defined, and called from a frame that binds y
FreeVarProg2 ==
    << PushConst(ValList(<<>>)), PushConst(ValBytecode(<<LoadSym("y")>>)),
       MakeFunc, StoreSym("f"),
       PushConst(ValList(<<ValSymbol("y")>>)),
       PushConst(ValBytecode(<<LoadSym("f"), CallFunc(0)>>)), MakeFunc,
       PushConst(ValInt(1)), CallFunc(1) >>

\* ((lambda (x) x) "hello")   v2/fiber.rs call_func_direct
CallFuncDirect2 ==
    << PushConst(FormLambda(<<"x">>, <<LoadSym("x")>>)),
       PushConst(ValString("hello")), CallFunc(1) >>

\* ((lambda (a b) a) 1 2)
CallTwoArgs2 ==
    << PushConst(FormLambda(<<"a", "b">>, <<LoadSym("a")>>)),
       PushConst(ValInt(1)), PushConst(ValInt(2)), CallFunc(2) >>

\* (def f (lambda () (f))) (f): unbounded recursion
Recursive2 ==
    << PushConst(FormLambda(<<>>, <<LoadSym("f"), CallFunc(0)>>)),
       StoreSym("f"), LoadSym("f"), CallFunc(0) >>

Catalogue2 == { FreeVarProg2, CallFuncDirect2, CallTwoArgs2, Recursive2 }

Programs2 == Generated2 \cup Catalogue2

Init1Idle ==
    /\ cframes = <<>>
    /\ stack = <<>>
    /\ envs = <<>>
    /\ locals = 0
    /\ pc = "host"
    /\ ret = NoRet
    /\ call = <<"none">>

InitV2 ==
    /\ \E code \in Programs2 :
          LET f == FromBytecode2(code) IN
          /\ cframes2 = f.cframes
          /\ stack2 = f.stack
          /\ envs2 = f.envs
    /\ status2 = StatusNew
    /\ pc2 = "host"
    /\ ret2 = NoRet
    /\ resumes = 0
    /\ Init1Idle
    /\ InitPairIdle
    /\ InitConvIdle
    /\ InitRuntimeIdle

\* a guard that refuses only a completed fiber
StartRefusedIfCompleted(status) == status[1] = "Completed"

\* if f.status != Status::New { return Err(FiberError::AlreadyRunning); }
StartRefused(status) == status # StatusNew

\* a run that does not mark the fiber Running
StatusLeftNew == StatusNew

\* f.status = Status::Running;  (the first statement of run)
StatusAtRunEntry == StatusRunning

\* start(f)
Start2 ==
    /\ pc2 = "host"
    /\ resumes < MaxResumes
    /\ resumes' = resumes + 1
    /\ IF StartRefused(status2)
       THEN /\ ret2' = <<"Err", AlreadyRunning>>
            /\ UNCHANGED <<status2, pc2>>
       ELSE /\ status2' = StatusAtRunEntry
            /\ pc2' = "run"
            /\ ret2' = ret2
    /\ UNCHANGED <<cframes2, stack2, envs2, vars1, vars3, vars4, vars5>>

\* the status run ends with when the loop breaks on a result
CompletedWith(r) == StatusCompleted(r)

\* one iteration of the loop of run (f.status is Running)
Step2 ==
    /\ pc2 = "run"
    /\ Len(cframes2) <= MaxFrames
    /\ LET i == FetchInst(Fiber2) IN
       IF i[1] = "None"
       THEN \* f.inst(): expect("Callstack executing outside bytecode length")
            /\ pc2' = "host"
            /\ ret2' = <<"Panic">>
            /\ UNCHANGED <<cframes2, stack2, envs2, status2>>
       ELSE
       LET d == Dispatch2(AdvanceIp(Fiber2, 1), i[2]) IN
       CASE d.sig[1] = "Err" ->
              /\ cframes2' = d.f.cframes
              /\ stack2' = d.f.stack
              /\ envs2' = d.f.envs
              /\ status2' = CompletedWith(ResErr(d.sig[2]))
              /\ pc2' = "host"
              /\ ret2' = <<"Ok">>
         [] d.sig[1] = "Panic" ->
              /\ cframes2' = d.f.cframes
              /\ stack2' = d.f.stack
              /\ envs2' = d.f.envs
              /\ pc2' = "host"
              /\ ret2' = <<"Panic">>
              /\ UNCHANGED status2
         [] OTHER ->
              LET f1 == PopCompleted(d.f) IN
              /\ cframes2' = f1.cframes
              /\ envs2' = f1.envs
              /\ IF AtEnd(f1)
                 THEN IF f1.stack = <<>>
                      THEN \* expect("Stack should contain result")
                           /\ stack2' = f1.stack
                           /\ pc2' = "host"
                           /\ ret2' = <<"Panic">>
                           /\ UNCHANGED status2
                      ELSE /\ stack2' = Pop(f1.stack)
                           /\ status2' = CompletedWith(ResOk(Top(f1.stack)))
                           /\ pc2' = "host"
                           /\ ret2' = <<"Ok">>
                 ELSE /\ stack2' = f1.stack
                      /\ UNCHANGED <<status2, pc2, ret2>>
    /\ UNCHANGED <<resumes, vars1, vars3, vars4, vars5>>

NextV2 ==
    \/ Start2
    \/ Step2

SpecV2 == InitV2 /\ [][NextV2]_vars

-----------------------------------------------------------------------------
(* Properties of the yield / resume protocol *)

\* the instruction the next Step executes, <<"None">> past the end
CurInst == FetchInst(Fiber)

\* the fiber runs this program
Runs(code) == cframes # <<>> /\ cframes[1].code = code

\* the v2 fiber runs this program
Runs2(code) == cframes2 # <<>> /\ cframes2[1].code = code

\* the next Step executes the Yield instruction on a nonempty stack
AtYieldInst ==
    /\ pc = "fetch"
    /\ CurInst[1] = "Some"
    /\ CurInst[2][1] = "Yield"
    /\ stack # <<>>

\* the step is a call of resume_from_yield on a suspended fiber
IsResumeFromYieldStep ==
    /\ pc = "host"
    /\ IsSuspended
    /\ call'[1] = "resume_from_yield"
    /\ resumes' = resumes + 1

\* C1: the Yield instruction pops the top operand v and returns Yield(v)
\* to the host, leaving the popped operand's place as the resume slot;
\* the next resume_from_yield(r) puts r in that place, so the operand
\* stack is as deep as before the Yield with r on top, and execution
\* continues after the Yield (the frames, with the advanced ip, are
\* untouched).  End to end: (+ 1 (yield 2)) resumed with Int(k) is
\* Done(Int(1 + k)).
C1_YieldResumeExchange ==
    /\ [][ /\ AtYieldInst =>
                /\ ret' = <<"Yield", Top(stack)>>
                /\ pc' = "host"
                /\ Len(stack') = Len(stack)
                /\ Pop(stack') = Pop(stack)
                /\ cframes' = AdvanceIp(Fiber, 1).cframes
           /\ IsResumeFromYieldStep =>
                /\ Top(stack') = call'[2]
                /\ Len(stack') = Len(stack)
                /\ Pop(stack') = Pop(stack)
                /\ cframes' = cframes
                /\ envs' = envs
                /\ pc' = "after"
         ]_vars
    /\ [](Runs(PlusYieldProg) /\ pc = "host" /\ ret[1] = "Done" =>
             /\ call[1] = "resume_from_yield"
             /\ call[2][1] = "Int"
             /\ ret = <<"Done", ValInt(1 + call[2][2])>>)

\* (+ 1 (yield 2)) yielded 2, was resumed with Int(2) and finished with 3
C1_Witness ==
    /\ Runs(PlusYieldProg)
    /\ pc = "host"
    /\ call = <<"resume_from_yield", ValInt(2)>>
    /\ ret = <<"Done", ValInt(3)>>

\* the next Step calls a native that yields
AtNativeYield ==
    /\ pc = "fetch"
    /\ CurInst[1] = "Some"
    /\ CurInst[2][1] = "CallFunc"
    /\ Len(stack) > CurInst[2][2]
    /\ LET n      == CurInst[2][2]
           callee == stack[Len(stack) - n]
           args   == SubSeq(stack, Len(stack) - n + 1, Len(stack))
       IN /\ callee[1] = "NativeFn"
          /\ CallNative(Fiber, callee[2], args).res[1] = "Yield"

\* C2: a native returning NativeFnVal::Yield(v) suspends the fiber like
\* the Yield instruction: resume returns Yield(v), the arguments and the
\* callee are popped and one resume slot is reserved; resume_from_yield(r)
\* fills the slot (C1's second conjunct), so the call evaluates to r: a
\* fiber whose whole program is (echo_yield :one :two) finishes Done(r).
C2_NativeYield ==
    /\ [][ AtNativeYield =>
             LET n    == CurInst[2][2]
                 args == SubSeq(stack, Len(stack) - n + 1, Len(stack))
             IN /\ ret' = <<"Yield", CallNative(Fiber, stack[Len(stack) - n][2],
                                                args).res[2]>>
                /\ pc' = "host"
                /\ stack' = Push(SubSeq(stack, 1, Len(stack) - n - 1), ResumeSlot)
                /\ cframes' = AdvanceIp(Fiber, 1).cframes
         ]_vars
    /\ [][ IsResumeFromYieldStep => stack' = SetTop(stack, call'[2]) ]_vars
    /\ [](Runs(EchoYieldProg) /\ pc = "host" /\ ret[1] = "Yield" =>
             ret = <<"Yield", ValExtern(<<"EchoYield",
                       <<ValKeyword("one"), ValKeyword("two")>>>>)>>)
    /\ [](Runs(EchoYieldProg) /\ pc = "host" /\ ret[1] = "Done" =>
             /\ call[1] = "resume_from_yield"
             /\ ret = <<"Done", call[2]>>)

\* (echo_yield :one :two) yielded, was resumed with Int(1) and is Done(Int(1))
C2_Witness ==
    /\ Runs(EchoYieldProg)
    /\ pc = "host"
    /\ call = <<"resume_from_yield", ValInt(1)>>
    /\ ret = <<"Done", ValInt(1)>>

\* C3: Done is absorbing: once resume has returned Done(v), every later
\* call fails with AlreadyCompleted and leaves the operand stack, the
\* call frames and the environments unchanged.
C3_DoneIsAbsorbing ==
    [][ ret[1] = "Done" =>
          /\ UNCHANGED <<cframes, stack, envs>>
          /\ ret' # ret => ret' = <<"Err", AlreadyCompleted>>
      ]_vars

\* C4: after an instruction failed during resume the fiber is finished:
\* every later resume fails with AlreadyCompleted and executes nothing,
\* in particular not the instructions that follow the failing one.
C4_ErrorIsTerminal ==
    [][ ret[1] = "Err" =>
          /\ UNCHANGED <<cframes, stack, envs>>
          /\ ret' # ret => ret' = <<"Err", AlreadyCompleted>>
      ]_vars

\* the status changes the life cycle allows
AllowedTransition(a, b) ==
    \/ a[1] = "New"     /\ b[1] = "Running"
    \/ a[1] = "Running" /\ b[1] = "Yielded"
    \/ a[1] = "Yielded" /\ b[1] = "Running"
    \/ a[1] = "Running" /\ b[1] = "Completed"

\* C5: the status of a fiber changes only New -> Running, Running ->
\* Yielded, Yielded -> Running and Running -> Completed; nothing leaves
\* Completed, and Completed is entered from Running only.
C5_StatusTransitions ==
    [][ status2' # status2 => AllowedTransition(status2, status2') ]_vars

\* a fiber went New -> Running -> Completed
C5_Witness ==
    /\ status2[1] = "Completed"
    /\ pc2 = "host"
    /\ ret2 = <<"Ok">>

\* the step is a call of start
IsStartStep == pc2 = "host" /\ resumes' = resumes + 1

\* C6: start on a fiber whose status is Running fails with AlreadyRunning
\* and changes neither the status nor the operand stack, the call frames
\* and the environments.
C6_RunningRefused ==
    [][ IsStartStep /\ status2 = StatusRunning =>
          /\ ret2' = <<"Err", AlreadyRunning>>
          /\ UNCHANGED <<status2, cframes2, stack2, envs2, pc2>>
      ]_vars

\* start was called on a fiber left Running (by a panic of run) and failed
C6_Witness ==
    /\ status2 = StatusRunning
    /\ pc2 = "host"
    /\ ret2 = <<"Err", AlreadyRunning>>

C8_NotYieldedNoOp ==
    [][ IsStartStep /\ status2[1] \in {"Running", "Completed"} =>
          /\ UNCHANGED <<status2, cframes2, stack2, envs2, pc2>>
          /\ ret2' = IF status2[1] = "Completed"
                     THEN <<"Err", AlreadyCompleted>>
                     ELSE <<"Err", AlreadyRunning>>
      ]_vars

\* the next Step is one of the two suspension points
AtSuspensionPoint == AtNativeYield \/ (pc = "fetch" /\ CurInst[1] = "Some"
                                        /\ CurInst[2][1] = "Yield")

\* C9: resume returns Yield only from the Yield instruction or from a
\* CallFunc of a native that returns NativeFnVal::Yield; no other
\* instruction and no other step hands a Yield to the host.
C9_OnlyTwoSuspensionPoints ==
    [][ (pc # "host" /\ pc' = "host" /\ ret'[1] = "Yield") => AtSuspensionPoint
      ]_vars

\* a fiber is suspended after instructions of other kinds have run
C9_Witness ==
    /\ Runs(YieldingByArg)
    /\ pc = "host"
    /\ ret = <<"Yield", ValInt(0)>>

\* C10: a lambda's body sees the scope the lambda was created in, not the
\* caller's: f, created in the root scope where y is undefined, is called
\* from a frame binding y; its frame's environment extends the root
\* environment and the program ends with UndefinedSymbol(y).
C10_LexicalScope ==
    Runs2(FreeVarProg2) =>
        /\ Len(cframes2) = 3 => envs2[cframes2[3].env].parent = GlobalEnv
        /\ status2[1] = "Completed" =>
              status2 = StatusCompleted(ResErr(UndefinedSymbol("y")))

-----------------------------------------------------------------------------
(* Properties of environments and calls *)

\* the environments from e up to the root, nearest first
RECURSIVE Chain(_, _)
Chain(heap, e) ==
    IF e = NoEnv THEN <<>> ELSE <<e>> \o Chain(heap, heap[e].parent)

\* the next Step executes SetSym on a nonempty stack
AtSetSym ==
    /\ pc = "fetch"
    /\ CurInst[1] = "Some"
    /\ CurInst[2][1] = "SetSym"
    /\ stack # <<>>

\* the frames of the current chain that define s, as indexes of the chain
DefinersOf(s) ==
    LET c == Chain(envs, cframes[Len(cframes)].env) IN
    { i \in 1..Len(c) : s \in DOMAIN envs[c[i]].vars }

\* C11: closures share their creation environment by identity: a SetSym
\* is seen through every environment that resolves the symbol to the
\* frame assigned, so by every lambda that captured such an environment;
\* (begin (def x 0) (defn inc () (set x (+ x 1))) (inc) (inc) x) is
\* Done(Int(2)) and leaves x = 2 in the defining environment.
C11_ClosuresShareEnv ==
    /\ [][ AtSetSym /\ DefinersOf(CurInst[2][2]) # {} =>
             LET s == CurInst[2][2]
                 d == EnvDefiner(envs, cframes[Len(cframes)].env, s)
             IN \A e \in 1..Len(envs) :
                   EnvDefiner(envs, e, s) = d =>
                       EnvGet(envs', e, s) = <<"Some", Top(stack)>>
         ]_vars
    /\ [](Runs(IncTwice) /\ pc = "host" /\ ret[1] = "Done" =>
             /\ ret = <<"Done", ValInt(2)>>
             /\ envs[GlobalEnv].vars["x"] = ValInt(2))

\* inc ran twice and the defining environment holds x = 2
C11_Witness ==
    /\ Runs(IncTwice)
    /\ pc = "host"
    /\ ret = <<"Done", ValInt(2)>>
    /\ envs[GlobalEnv].vars["x"] = ValInt(2)

\* C12: SetSym(s) assigns the top of the stack to s in the nearest frame
\* of the chain that defines s, changes no other binding and leaves the
\* value on the stack; when no frame defines s it fails with
\* UndefinedSymbol(s) and changes no environment.
C12_SetSymNearestOrFails ==
    /\ [][ AtSetSym =>
             LET s  == CurInst[2][2]
                 c  == Chain(envs, cframes[Len(cframes)].env)
                 ds == DefinersOf(s)
             IN IF ds = {}
                THEN /\ ret' = <<"Err", UndefinedSymbol(s)>>
                     /\ pc' = "host"
                     /\ envs' = envs
                ELSE LET d == c[CHOOSE i \in ds : \A j \in ds : i <= j] IN
                     /\ envs' = [envs EXCEPT ![d].vars[s] = Top(stack)]
                     /\ stack' = stack
                     /\ pc' = "after"
         ]_vars
    /\ [](Runs(ShadowSet) /\ pc = "host" /\ ret[1] = "Done" =>
             ret = <<"Done", ValInt(0)>>)

\* (set x 1) where nothing defines x failed and defined nothing
C12_Witness ==
    /\ Runs(<<PushConst(ValInt(1)), SetSym("x")>>)
    /\ pc = "host"
    /\ ret = <<"Err", UndefinedSymbol("x")>>
    /\ \A e \in 1..Len(envs) : "x" \notin DOMAIN envs[e].vars

\* the next Step2 calls a lambda; the operand stack holds its arguments
AtLambdaCall2 ==
    /\ pc2 = "run"
    /\ FetchInst(Fiber2)[1] = "Some"
    /\ FetchInst(Fiber2)[2][1] = "CallFunc"
    /\ Len(stack2) > FetchInst(Fiber2)[2][2]
    /\ stack2[Len(stack2) - FetchInst(Fiber2)[2][2]][1] = "Lambda"

\* C13: CallFunc(n) delivers the arguments in the order they were pushed:
\* the i-th parameter of a lambda is bound to the i-th argument pushed,
\* for every n; ((lambda (a b) a) 1 2) is 1.
C13_ArgsLeftToRight ==
    /\ [][ AtLambdaCall2 =>
             LET n == FetchInst(Fiber2)[2][2]
                 l == stack2[Len(stack2) - n]
             IN \A i \in 1..n :
                   (i <= Len(l[2]) /\ \A j \in i+1..Len(l[2]) : l[2][j] # l[2][i])
                   => envs2'[Len(envs2')].vars[l[2][i]]
                        = stack2[Len(stack2) - n + i]
         ]_vars
    /\ [](Runs2(CallTwoArgs2) /\ status2[1] = "Completed" =>
             status2 = StatusCompleted(ResOk(ValInt(1))))

\* the next Step calls a lambda with as many arguments as CallFunc names
AtLambdaCall ==
    /\ pc = "fetch"
    /\ CurInst[1] = "Some"
    /\ CurInst[2][1] = "CallFunc"
    /\ Len(stack) > CurInst[2][2]
    /\ stack[Len(stack) - CurInst[2][2]][1] = "Lambda"

\* fiber.rs, for comparison with C10 on v2/fiber.rs: the frame of a called
\* lambda gets a fresh environment whose parent is the environment the
\* lambda captured, holding bindings of parameters only, and no existing
\* environment is changed by the call.
LexicalCallInFiberRs ==
    [][ AtLambdaCall =>
          LET l == stack[Len(stack) - CurInst[2][2]] IN
          /\ Len(envs') = Len(envs) + 1
          /\ SubSeq(envs', 1, Len(envs)) = envs
          /\ envs'[Len(envs')].parent = l[4]
          /\ DOMAIN envs'[Len(envs')].vars \subseteq {l[2][i] : i \in 1..Len(l[2])}
          /\ cframes'[Len(cframes')].env = Len(envs')
      ]_vars

\* fiber.rs, for comparison with C13 on v2/fiber.rs: the i-th parameter is
\* bound to the i-th argument pushed, and a native gets its arguments in
\* the order pushed.
ArgOrderInFiberRs ==
    /\ [][ AtLambdaCall =>
             LET n == CurInst[2][2]
                 l == stack[Len(stack) - n]
             IN \A i \in 1..n :
                   (i <= Len(l[2]) /\ \A j \in i+1..Len(l[2]) : l[2][j] # l[2][i])
                   => envs'[Len(envs')].vars[l[2][i]] = stack[Len(stack) - n + i]
         ]_vars
    /\ [](Runs(CallTwoArgs) /\ pc = "host" /\ ret[1] = "Done" =>
             ret = <<"Done", ValInt(1)>>)

\* C14: calling a lambda with a number of arguments other than its number
\* of parameters fails with InvalidArgumentsToFunctionCall and pushes no
\* call frame.
C14_ArityMismatchFails ==
    [][ AtLambdaCall /\ CurInst[2][2] # Len(stack[Len(stack) - CurInst[2][2]][2]) =>
          /\ ret' = <<"Err", InvalidArgumentsToFunctionCall>>
          /\ pc' = "host"
          /\ Len(cframes') = Len(cframes)
      ]_vars

\* the next Step is a CallFunc whose callee is not callable
AtNonCallable ==
    /\ pc = "fetch"
    /\ CurInst[1] = "Some"
    /\ CurInst[2][1] = "CallFunc"
    /\ Len(stack) > CurInst[2][2]
    /\ stack[Len(stack) - CurInst[2][2]][1] \notin {"Lambda", "NativeFn"}

\* C15: CallFunc on a callee that is neither a Lambda nor a NativeFn fails
\* with InvalidOperation carrying the callee, which is what resume returns.
C15_NonCallableFails ==
    [][ AtNonCallable =>
          /\ ret' = <<"Err", InvalidOperation(stack[Len(stack) - CurInst[2][2]])>>
          /\ pc' = "host"
      ]_vars

-----------------------------------------------------------------------------
(* Properties of native calls and peval *)

\* the next Step calls a native function; the stack holds its arguments
AtNativeCall ==
    /\ pc = "fetch"
    /\ CurInst[1] = "Some"
    /\ CurInst[2][1] = "CallFunc"
    /\ Len(stack) > CurInst[2][2]
    /\ stack[Len(stack) - CurInst[2][2]][1] = "NativeFn"

\* the arguments of the call the next Step makes
CallArgs == SubSeq(stack, Len(stack) - CurInst[2][2] + 1, Len(stack))

\* the operand stack below the callee of the call the next Step makes
BelowCall == SubSeq(stack, 1, Len(stack) - CurInst[2][2] - 1)

\* what the native called by the next Step gives
NativeGives == CallNative(Fiber, stack[Len(stack) - CurInst[2][2]][2], CallArgs).res

\* errors only a native returns
NativeErrors == {InvalidExpression, EmptyExpression}

\* C16: when a native called by CallFunc returns Err(e), resume returns
\* exactly e and nothing is pushed for the call; the fiber is finished:
\* no later resume executes an instruction.
C16_NativeErrTerminates ==
    [][ /\ AtNativeCall /\ NativeGives[1] = "Err" =>
              /\ ret' = NativeGives
              /\ pc' = "host"
              /\ stack' = BelowCall
        /\ ret[1] = "Err" /\ ret[2] \in NativeErrors =>
              UNCHANGED <<cframes, stack, envs>>
      ]_vars

\* the next Step calls peval on an expression whose evaluation in the
\* nested fiber fails
AtPevalErr ==
    /\ AtNativeCall
    /\ stack[Len(stack) - CurInst[2][2]] = ValNativeFn("peval")
    /\ Len(CallArgs) = 1
    /\ Compile(CallArgs[1])[1] = "Ok"
    /\ RunFiber(NestedFiber(Fiber, Compile(CallArgs[1])[2]), MaxNested).sig[1] = "Err"

\* the error the nested fiber of the next Step fails with
NestedError ==
    RunFiber(NestedFiber(Fiber, Compile(CallArgs[1])[2]), MaxNested).sig[2]

\* C17 as stated: when the nested fiber fails with e, peval returns
\* Val::Error(e), the calling fiber keeps running, and the parent's
\* environment is exactly as it was before the failing evaluation.
C17_PevalErrorLeavesEnv ==
    [][ AtPevalErr =>
          /\ stack' = Push(BelowCall, ValError(NestedError))
          /\ pc' = "after"
          /\ envs' = envs
      ]_vars

\* C17 amended: when the nested fiber fails with e, peval returns
\* Val::Error(e) and the calling fiber keeps running; every environment
\* keeps its parent and every symbol it defined, so later evaluations
\* still see earlier definitions (what the expression defined or set
\* before it failed stays: nothing is rolled back); an expression that is
\* a bare symbol leaves the environments exactly as they were.
C17_PevalErrorIsValue ==
    /\ [][ AtPevalErr =>
             /\ stack' = Push(BelowCall, ValError(NestedError))
             /\ pc' = "after"
             /\ ret' = ret
             /\ Len(envs') >= Len(envs)
             /\ \A e \in 1..Len(envs) :
                   /\ envs'[e].parent = envs[e].parent
                   /\ DOMAIN envs[e].vars \subseteq DOMAIN envs'[e].vars
             /\ CallArgs[1][1] = "Symbol" => envs' = envs
         ]_vars
    /\ [](Runs(PevalUndefined) /\ pc = "host" /\ resumes = 1 =>
             ret = <<"Done", ValError(UndefinedSymbol("jibberish"))>>)
    /\ [](Runs(PevalAfterError) /\ pc = "host" /\ resumes = 1 =>
             ret = <<"Done", ValInt(6)>>)

\* after (peval 'jibberish) gave its error as a value, the fiber went on
\* and (set x (+ x x)) saw x = 3
C17_Witness ==
    /\ Runs(PevalAfterError)
    /\ pc = "host"
    /\ ret = <<"Done", ValInt(6)>>
    /\ envs[GlobalEnv].vars["x"] = ValInt(6)

\* C18: peval evaluates in the caller's current environment, shared by
\* identity: what the expression defines or sets is seen by later
\* evaluations of the parent and by later pevals, and the expression sees
\* the parent's symbols; inside a lambda the current environment is the
\* one of the lambda's frame.
C18_PevalSharesEnv ==
    /\ [](Runs(PevalSharesEnv) /\ pc = "host" /\ resumes = 1 =>
             /\ ret = <<"Done", ValInt(3)>>
             /\ envs[GlobalEnv].vars["x"] = ValInt(3)
             /\ envs[GlobalEnv].vars["y"] = ValInt(3))
    /\ [](Runs(PevalInLambda) /\ pc = "host" /\ resumes = 1 =>
             /\ ret = <<"Err", UndefinedSymbol("z")>>
             /\ \E e \in 1..Len(envs) :
                   /\ envs[e].parent = GlobalEnv
                   /\ envs[e].vars = [v \in {"y", "z"} |-> ValInt(5)])

\* the second peval and the parent saw what the first peval set
C18_Witness ==
    /\ Runs(PevalSharesEnv)
    /\ pc = "host"
    /\ ret = <<"Done", ValInt(3)>>

\* C19: when the expression evaluated by peval yields, the parent
\* suspends with that value; resuming the parent with r continues the
\* nested expression after its yield with r as the yield's value, and
\* peval returns the nested expression's result:
\* (peval '(+ 1 (yield 2))) yields 2 and, resumed with Int(k), is
\* Done(Int(1 + k)).
C19_PevalYieldDescends ==
    /\ Runs(PevalYield) /\ pc = "host" /\ ret[1] = "Yield" =>
          ret = <<"Yield", ValInt(2)>>
    /\ Runs(PevalYield) /\ pc = "host" /\ ret[1] = "Done" =>
          /\ call[1] = "resume_from_yield"
          /\ call[2][1] = "Int" => ret = <<"Done", ValInt(1 + call[2][2])>>

-----------------------------------------------------------------------------
(* Properties of termination *)

\* the step returns Done to the host
ReturnsDone == pc = "after" /\ pc' = "host" /\ ret'[1] = "Done"

\* programs that leave one value when their root frame is exhausted
OneResultPrograms ==
    { IncTwice, ShadowSet, CallTwoArgs, CallFuncLambda, CallFuncNested,
      JumpFwdProg, PlusYieldProg, EchoYieldProg, PevalSharesEnv,
      PevalAfterError, PevalUndefined }

\* C20 as stated: a fiber that terminates with Done(v) holds exactly v on
\* its operand stack when the root frame is exhausted and nothing after
\* the final pop.
C20_ExactlyOneResult ==
    [][ ReturnsDone => stack = <<ret'[2]>> /\ stack' = <<>> ]_vars

\* C20 amended: a fiber that terminates with Done(v) has v on top of its
\* operand stack when the root frame is exhausted and the final pop
\* removes it; values below v stay (the code warns and returns Done), and
\* the stack is empty afterwards for programs that leave one value.
C20_ResultIsTop ==
    /\ [][ ReturnsDone =>
             /\ stack # <<>>
             /\ ret' = <<"Done", Top(stack)>>
             /\ stack' = Pop(stack)
         ]_vars
    /\ [](cframes[1].code \in OneResultPrograms /\ ret[1] = "Done" =>
             stack = <<>>)

\* a fiber terminated with Done while a value was left below the result
C20_Witness ==
    /\ Runs(<<PushConst(ValInt(1)), PushConst(ValNil)>>)
    /\ pc = "host"
    /\ ret = <<"Done", ValNil>>
    /\ stack = <<ValInt(1)>>

-----------------------------------------------------------------------------
(* Properties of whole programs *)

\* Fiber::from_bytecode(vec![])
EmptyProgram == <<>>

\* C21: resuming a fiber built from empty bytecode fails with
\* UnexpectedStack: there is no value to return.
C21_EmptyBytecodeUnexpectedStack ==
    Runs(EmptyProgram) /\ pc = "host" /\ resumes = 1 =>
        ret = <<"Err", UnexpectedStack>>

\* the step returns to the host from a run of this program
ReturnsFrom(code) == Runs(code) /\ pc # "host" /\ pc' = "host"

\* the last suspension gave Int(v) and the host resumed with Int(r)
ResumedWithInt ==
    /\ ret[1] = "Yield" /\ ret[2][1] = "Int"
    /\ call[1] = "resume_from_yield" /\ call[2][1] = "Int"

\* the suspension the step ends with yields r more than the one before
YieldsSum ==
    /\ ret'[1] = "Yield"
    /\ ret'[2][1] = "Int"
    /\ ret'[2][2] - call[2][2] = ret[2][2]

-----------------------------------------------------------------------------
(* Properties of loops *)

LoopPrograms == { LoopingYield, ReplSim, LoopUndefined, LoopNoYield, LoopThen }

\* the fiber runs one of the loop programs
RunsLoop == cframes # <<>> /\ cframes[1].code \in LoopPrograms

\* the position of the jump that closes the loop of the root frame
LoopEnd == CHOOSE j \in 1..Len(cframes[1].code) : cframes[1].code[j][1] = "JumpBck"

\* a loop never completes and control never passes its closing jump; a
\* resume re-enters the body where it stopped and the next iteration sees
\* what the previous one wrote
LoopReexecutes ==
    /\ [](RunsLoop => ret[1] # "Done" /\ cframes[1].ip < LoopEnd)
    /\ [][ RunsLoop /\ pc # "host" /\ pc' = "host" =>
              ret'[1] \in {"Yield", "Err", "Panic"} ]_vars
    /\ [][ ReturnsFrom(LoopingYield) =>
             IF ret = NoRet THEN ret' = <<"Yield", ValInt(0)>>
             ELSE ResumedWithInt /\ ~AddOverflows(ret[2][2], call[2][2])
                  => YieldsSum
         ]_vars
    /\ [][ ReturnsFrom(ReplSim) =>
             IF ret = NoRet \/ ret[2][2][1] = "SendConn"
             THEN ret' = <<"Yield", ValExtern(<<"RecvConn">>)>>
             ELSE call[2][1] = "Int" =>
                     ret' = <<"Yield", ValExtern(<<"SendConn", <<call[2]>>>>)>>
         ]_vars

\* C23: a (loop body...) form re-executes its body indefinitely: the fiber
\* never reaches Done and never passes the loop; it leaves the loop only by
\* suspending (a resume re-enters the body where it stopped, the next
\* iteration sees what the previous one wrote) or by an error, and an
\* error terminates the fiber: nothing of it runs afterwards.
C23_LoopOnlySuspendsOrFails ==
    /\ LoopReexecutes
    /\ [][ RunsLoop /\ ret[1] = "Err" => UNCHANGED <<cframes, stack, envs>> ]_vars

-----------------------------------------------------------------------------
(* Properties of locals *)

\* the native the next Step calls
CalledNative == stack[Len(stack) - CurInst[2][2]][2]

\* C24: arguments are evaluated left to right and natives take effect on
\* the locals in program order: the locals change only in the step of a
\* native call; get_local gives the locals as the native calls before it
\* left them and inc_local adds to them; in (+ (get_local) (begin
\* (inc_local 1) (get_local))) the first argument reads the locals before
\* the second writes them; get_set_locals ends with Done(Int(42)).
C24_LocalsInProgramOrder ==
    /\ [][ locals' # locals => AtNativeCall ]_vars
    /\ [][ AtNativeCall /\ CalledNative = "get_local" =>
              /\ stack' = Push(BelowCall, ValInt(locals))
              /\ locals' = locals
         ]_vars
    /\ [][ AtNativeCall /\ CalledNative = "inc_local" /\ Len(CallArgs) = 1
             /\ CallArgs[1][1] = "Int" /\ ~AddOverflows(locals, CallArgs[1][2]) =>
              /\ locals' = locals + CallArgs[1][2]
              /\ stack' = Push(BelowCall, ValNil)
         ]_vars
    /\ [](Runs(GetSetLocals) /\ pc = "host" /\ resumes = 1 =>
             /\ ret = <<"Done", ValInt(locals)>>
             /\ locals \in {12, 42})
    /\ [](Runs(ArgsInOrder) /\ pc = "host" /\ resumes = 1 =>
             /\ ret = <<"Done", ValInt(2 * locals - 1)>>
             /\ locals \in {1, 16})

\* get_set_locals started with 15 and is Done(Int(42))
C24_Witness ==
    /\ Runs(GetSetLocals)
    /\ pc = "host"
    /\ locals = 42
    /\ ret = <<"Done", ValInt(42)>>

-----------------------------------------------------------------------------
(* Properties of determinism *)

-----------------------------------------------------------------------------
(* Two fibers under one scheduler.  Each is constructed on its own by      *)
(* Fiber::from_bytecode; the host resumes them in any order, with a datum   *)
(* or with the value the other fiber yielded last (proc_bindings.rs        *)
(* send_fn hands a Val of one process to another).  The environments of    *)
(* both live in one arena, as Rc allocations live in one address space: a  *)
(* Lambda holds the Rc of the environment it closed over (types.rs).       *)

\* host calls made on each fiber of the pair
MaxPairCalls == 2
\* steps a fiber driven alone is followed for, per host call
MaxAloneSteps == 40

\* one global for all fibers
PairGlobalShared(i) == 1

\* let env = Rc::new(RefCell::new(Env::default())): one per fiber
PairGlobal(i) == i

\* (begin (def x 0) (yield (lambda () (set x 1))) x)
YieldClosure ==
    << PushConst(ValInt(0)), DefSym("x"), PopTop,
       PushConst(ValList(<<>>)),
       PushConst(ValBytecode(<<PushConst(ValInt(1)), SetSym("x")>>)), MakeFunc,
       Yield, PopTop, GetSym("x") >>

\* ((yield 0))
CallResumed == << PushConst(ValInt(0)), Yield, CallFunc(0) >>

\* (begin (def x 5) (yield x) x)
DefThenYield ==
    << PushConst(ValInt(5)), DefSym("x"), PopTop, GetSym("x"), Yield,
       PopTop, GetSym("x") >>

PairPrograms ==
    { YieldClosure, CallResumed, DefThenYield, PlusYieldProg, CallFuncNested }

\* the environments of a pair no fiber of which ran
PairArena == << BindAll(EmptyEnv, Natives), BindAll(EmptyEnv, Natives) >>

\* Fiber::from_bytecode for fiber i, with what the scheduler did with it
PairFiber(i, code) ==
    [cframes |-> <<CallFrameFromBytecode(PairGlobal(i), code)>>,
     stack |-> <<>>, envs |-> <<>>, locals |-> 0,
     pc |-> "host", ret |-> NoRet, call |-> <<"none">>, resumes |-> 0,
     calls |-> <<>>, rets |-> <<>>]

InitPair ==
    /\ \E c1 \in PairPrograms, c2 \in PairPrograms :
          fibers = << PairFiber(1, c1), PairFiber(2, c2) >>
    /\ arena = PairArena
    /\ resumes = 0
    /\ Init1Idle
    /\ Init2Idle
    /\ InitConvIdle
    /\ InitRuntimeIdle

Other(i) == 3 - i

\* fiber s with the arena a in the place of its environments
InArena(s, a) == [s EXCEPT !.envs = a]

\* what the host may resume fiber i with: a datum, or what the other fiber
\* yielded last
PairResumeVals(i) ==
    { ValNil, ValInt(1) } \cup
    ( IF fibers[Other(i)].ret[1] = "Yield"
      THEN { fibers[Other(i)].ret[2] } ELSE {} )

\* the calls the host may make on the fiber s
PairCalls(i) ==
    LET s == fibers[i] IN
    ( IF s.stack # <<>> /\ Top(s.stack) = ResumeSlot
      THEN {} ELSE { <<"resume">> } ) \cup
    ( IF (s.stack # <<>> /\ Top(s.stack) = ResumeSlot) \/ s.call = <<"none">>
      THEN { <<"resume_from_yield", r>> : r \in PairResumeVals(i) } ELSE {} )

\* the record s of fiber i goes back into the pair, its environments into
\* the arena, its result into its history when it returned to the host
PairPut(i, s) ==
    /\ fibers' = [fibers EXCEPT ![i] =
                    [s EXCEPT !.envs = <<>>,
                              !.rets = IF s.pc = "host"
                                       THEN Append(@, s.ret) ELSE @]]
    /\ arena' = s.envs

\* the scheduler calls resume / resume_from_yield on fiber i
PairCall(i) ==
    /\ fibers[i].pc = "host"
    /\ Len(fibers[i].calls) < MaxPairCalls
    /\ \E c \in PairCalls(i) :
          /\ fibers' = [fibers EXCEPT ![i] =
                          [HostCallOf(fibers[i], c) EXCEPT
                              !.calls = Append(@, c)]]
          /\ arena' = arena
    /\ UNCHANGED <<vars1, vars2, vars4, vars5, resumes>>

\* fiber i, inside run, makes its next step
PairRun(i) ==
    /\ fibers[i].pc # "host"
    /\ Len(fibers[i].cframes) <= MaxFrames
    /\ PairPut(i, NextOf(InArena(fibers[i], arena), <<"none">>))
    /\ UNCHANGED <<vars1, vars2, vars4, vars5, resumes>>

NextPair ==
    \/ \E i \in 1..2 : PairCall(i)
    \/ \E i \in 1..2 : PairRun(i)

SpecPair == InitPair /\ [][NextPair]_vars

\* a fiber driven alone ---------------------------------------------------

\* the fiber s run until it returns to the host
RECURSIVE RunToHost(_, _)
RunToHost(s, fuel) ==
    IF s.pc = "host" \/ fuel = 0 \/ Len(s.cframes) > MaxFrames THEN s
    ELSE RunToHost(NextOf(s, <<"none">>), fuel - 1)

RECURSIVE AloneRets(_, _, _)
AloneAfter(s, cs, k) == <<s.ret>> \o AloneRets(s, cs, k + 1)

\* the results of the fiber s when the host makes the calls cs[k..] on it
\* and on no other fiber
AloneRets(s, cs, k) ==
    IF k > Len(cs) THEN <<>>
    ELSE AloneAfter(RunToHost(HostCallOf(s, cs[k]), MaxAloneSteps), cs, k)

\* a value without the identity of the environments its lambdas hold
RECURSIVE EraseEnv(_)
EraseEnv(v) ==
    CASE v[1] = "Lambda" -> ValLambda(v[2], v[3], NoEnv)
      [] v[1] = "List"   -> ValList([k \in DOMAIN v[2] |-> EraseEnv(v[2][k])])
      [] OTHER           -> v

EraseRet(r) ==
    IF r[1] \in {"Done", "Yield"} THEN <<r[1], EraseEnv(r[2])>> ELSE r

EraseRets(rs) == [k \in DOMAIN rs |-> EraseRet(rs[k])]

\* v is, or holds in a list, a Lambda
RECURSIVE HasLambda(_)
HasLambda(v) ==
    CASE v[1] = "Lambda" -> TRUE
      [] v[1] = "List"   -> \E k \in DOMAIN v[2] : HasLambda(v[2][k])
      [] OTHER           -> FALSE

\* the host resumed no fiber with a value holding a Lambda
NoLambdaPassed ==
    \A i \in 1..2 : \A k \in DOMAIN fibers[i].calls :
        fibers[i].calls[k][1] = "resume_from_yield"
            => ~HasLambda(fibers[i].calls[k][2])

\* fiber i returned to the host as often as the host called it
PairAtHost(i) ==
    fibers[i].pc = "host" /\ Len(fibers[i].rets) = Len(fibers[i].calls)

\* the results of fiber i are those of the same fiber driven alone
SameAsAlone(i) ==
    EraseRets(fibers[i].rets) =
    EraseRets(AloneRets(InArena(PairFiber(i, fibers[i].cframes[1].code),
                                PairArena),
                        fibers[i].calls, 1))

\* a step of fiber i leaves the other fiber and its global environment
\* as they were
LeavesOther(i) ==
    fibers'[i] # fibers[i] =>
        /\ fibers'[Other(i)] = fibers[Other(i)]
        /\ arena'[PairGlobal(Other(i))] = arena[PairGlobal(Other(i))]

\* C26: two independently constructed fibers, resumed in any interleaving:
\* the results of each are those it produces when driven alone, and a
\* resume of one never changes the other's operand stack, call frames,
\* global environment or status
C26_FibersIsolated ==
    /\ [][ fibers # <<>> => \A i \in 1..2 : LeavesOther(i) ]_vars
    /\ [](fibers # <<>> =>
            \A i \in 1..2 : PairAtHost(i) => SameAsAlone(i))

\* C26, for a host that hands no Lambda of one fiber to the other: the
\* fibers are isolated
C26_IsolatedUnlessLambdaPassed ==
    /\ [][ fibers # <<>> /\ NoLambdaPassed' =>
              \A i \in 1..2 : LeavesOther(i) ]_vars
    /\ [](fibers # <<>> /\ NoLambdaPassed =>
            \A i \in 1..2 : PairAtHost(i) => SameAsAlone(i))

\* both fibers ran to their ends in turns, each with the result it has alone
C26_Witness ==
    /\ fibers # <<>>
    /\ NoLambdaPassed
    /\ fibers[1].cframes[1].code = DefThenYield
    /\ fibers[2].cframes[1].code = YieldClosure
    /\ fibers[1].rets = << <<"Yield", ValInt(5)>>, <<"Done", ValInt(5)>> >>
    /\ EraseRets(fibers[2].rets) =
          << <<"Yield", ValLambda(<<>>, <<PushConst(ValInt(1)), SetSym("x")>>,
                                  NoEnv)>>,
             <<"Done", ValInt(0)>> >>
    /\ arena[1].vars["x"] = ValInt(5)
    /\ arena[2].vars["x"] = ValInt(0)

-----------------------------------------------------------------------------
(* Form and Val (types.rs): From<Form> for Val and TryFrom<Val> for Form   *)

\* list nesting of the forms and values converted
MaxDepth == 2

(* Form of types.rs, as tagged tuples of its own *)
FormNil        == <<"Form::Nil">>
FormBool(b)    == <<"Form::Bool", b>>
FormInt(i)     == <<"Form::Int", i>>
FormString(s)  == <<"Form::String", s>>
FormSymbol(s)  == <<"Form::Symbol", s>>
FormKeyword(s) == <<"Form::Keyword", s>>
FormList(l)    == <<"Form::List", l>>

InvalidFormToExpr(msg) == <<"InvalidFormToExpr", msg>>

\* impl From<Form> for Val
RECURSIVE FormToVal(_)
FormToVal(form) ==
    CASE form[1] = "Form::Nil"     -> ValNil
      [] form[1] = "Form::Bool"    -> ValBool(form[2])
      [] form[1] = "Form::Int"     -> ValInt(form[2])
      [] form[1] = "Form::String"  -> ValString(form[2])
      [] form[1] = "Form::Symbol"  -> ValSymbol(form[2])
      [] form[1] = "Form::Keyword" -> ValKeyword(form[2])
      [] form[1] = "Form::List"    ->
            ValList([k \in DOMAIN form[2] |-> FormToVal(form[2][k])])

\* the arms of try_from that take NativeFn for a symbol
ValAtomToFormLenient(value) ==
    CASE value[1] = "Nil"      -> <<"Ok", FormNil>>
      [] value[1] = "Bool"     -> <<"Ok", FormBool(value[2])>>
      [] value[1] = "Int"      -> <<"Ok", FormInt(value[2])>>
      [] value[1] = "String"   -> <<"Ok", FormString(value[2])>>
      [] value[1] = "Symbol"   -> <<"Ok", FormSymbol(value[2])>>
      [] value[1] = "Keyword"  -> <<"Ok", FormKeyword(value[2])>>
      [] value[1] = "NativeFn" -> <<"Ok", FormSymbol(value[2])>>
      [] OTHER -> <<"Err", InvalidFormToExpr("not exprs")>>

\* the arms of try_from for everything but a list
ValAtomToForm(value) ==
    CASE value[1] = "Nil"      -> <<"Ok", FormNil>>
      [] value[1] = "Bool"     -> <<"Ok", FormBool(value[2])>>
      [] value[1] = "Int"      -> <<"Ok", FormInt(value[2])>>
      [] value[1] = "String"   -> <<"Ok", FormString(value[2])>>
      [] value[1] = "Symbol"   -> <<"Ok", FormSymbol(value[2])>>
      [] value[1] = "Keyword"  -> <<"Ok", FormKeyword(value[2])>>
      [] value[1] = "Bytecode" ->
            <<"Err", InvalidFormToExpr("bytecode are not exprs")>>
      [] value[1] = "Lambda"   ->
            <<"Err", InvalidFormToExpr("lambdas are not exprs")>>
      [] value[1] = "NativeFn" ->
            <<"Err", InvalidFormToExpr("nativefns are not exprs")>>
      [] value[1] = "Error"    ->
            <<"Err", InvalidFormToExpr("errors are not exprs")>>
      [] value[1] = "Extern"   ->
            <<"Err", InvalidFormToExpr("extern values are not exprs")>>

RECURSIVE ValToForm(_)
RECURSIVE CollectForms(_, _)

\* collect::<Result<Vec<_>>>: the element r before the collected rest
ConsResult(r, rest) ==
    IF rest[1] = "Err" THEN rest ELSE <<"Ok", <<r[2]>> \o rest[2]>>

\* the first Err ends the collection
CollectAfter(r, l, i) ==
    IF r[1] = "Err" THEN r ELSE ConsResult(r, CollectForms(l, i + 1))

\* l.into_iter().map(|e| e.try_into()).collect::<Result<Vec<_>>>()
CollectForms(l, i) ==
    IF i > Len(l) THEN <<"Ok", <<>>>>
    ELSE CollectAfter(ValToForm(l[i]), l, i)

\* Ok(Form::List(...?))
ListResult(r) == IF r[1] = "Err" THEN r ELSE <<"Ok", FormList(r[2])>>

\* impl TryFrom<Val> for Form
ValToForm(value) ==
    IF value[1] = "List" THEN ListResult(CollectForms(value[2], 1))
    ELSE ValAtomToForm(value)

\* the values of the variants of Form
FormAtoms ==
    { FormNil, FormBool(TRUE), FormInt(1), FormString("s"), FormSymbol("x"),
      FormKeyword("k") }

\* values of every variant of Val that is not a list
ValAtoms ==
    { ValNil, ValBool(TRUE), ValInt(1), ValString("s"), ValSymbol("x"),
      ValKeyword("k"), ValLambda(<<>>, <<PopTop>>, GlobalEnv),
      ValNativeFn("+"), ValBytecode(<<PopTop>>), ValError(UnexpectedStack),
      ValExtern(<<"RecvConn">>) }

\* the tuples a list is made of around the element v: alone, first, last
Around(v, pads) ==
    { <<v>> } \cup { <<v, a>> : a \in pads } \cup { <<a, v>> : a \in pads }

\* forms nested in lists to the depth d
RECURSIVE FormsTo(_)
FormsTo(d) ==
    IF d = 0 THEN FormAtoms
    ELSE FormAtoms \cup { FormList(<<>>) } \cup
         { FormList(l) :
             l \in UNION { Around(v, {FormInt(2), FormList(<<>>)}) :
                             v \in FormsTo(d - 1) } }

\* values nested in lists to the depth d
RECURSIVE ValsTo(_)
ValsTo(d) ==
    IF d = 0 THEN ValAtoms
    ELSE ValAtoms \cup { ValList(<<>>) } \cup
         { ValList(l) :
             l \in UNION { Around(v, {ValInt(2), ValNativeFn("peval")}) :
                             v \in ValsTo(d - 1) } }

\* value is, or holds at some list depth, a variant Form does not have
RECURSIVE HoldsNonForm(_)
HoldsNonForm(value) ==
    CASE value[1] \in {"Lambda", "NativeFn", "Bytecode", "Error", "Extern"}
            -> TRUE
      [] value[1] = "List"
            -> \E k \in DOMAIN value[2] : HoldsNonForm(value[2][k])
      [] OTHER -> FALSE

NoConv == <<"None">>

\* a form to convert to a Val and back, or a Val to convert to a Form
InitConv ==
    /\ conv \in
         { [stage |-> "form", src |-> f, val |-> NoConv, res |-> NoConv] :
             f \in FormsTo(MaxDepth) } \cup
         { [stage |-> "val", src |-> NoConv, val |-> v, res |-> NoConv] :
             v \in ValsTo(MaxDepth) }
    /\ resumes = 0
    /\ Init1Idle
    /\ Init2Idle
    /\ InitPairIdle
    /\ InitRuntimeIdle

\* let v: Val = form.into()
IntoVal ==
    /\ conv.stage = "form"
    /\ conv' = [conv EXCEPT !.stage = "val", !.val = FormToVal(conv.src)]
    /\ UNCHANGED <<vars1, vars2, vars3, vars5, resumes>>

\* Form::try_from(v)
TryIntoForm ==
    /\ conv.stage = "val"
    /\ conv' = [conv EXCEPT !.stage = "done", !.res = ValToForm(conv.val)]
    /\ UNCHANGED <<vars1, vars2, vars3, vars5, resumes>>

NextConv == IntoVal \/ TryIntoForm

SpecConv == InitConv /\ [][NextConv]_vars

\* C27: Form -> Val -> Form gives back every Form, nested lists included,
\* and Val -> Form fails with InvalidFormToExpr exactly when the value is,
\* or holds at some list depth, a Lambda, NativeFn, Bytecode, Error or
\* Extern
C27_FormValRoundTrip ==
    conv.stage = "done" =>
        /\ conv.src # NoConv => conv.res = <<"Ok", conv.src>>
        /\ (conv.res[1] = "Err") <=> HoldsNonForm(conv.val)
        /\ conv.res[1] = "Err" => conv.res[2][1] = "InvalidFormToExpr"
        /\ conv.res[1] = "Ok" => FormToVal(conv.res[2]) = conv.val

\* a list holding a list went to a Val and came back
C27_Witness ==
    /\ conv.stage = "done"
    /\ conv.src = FormList(<<FormList(<<FormSymbol("x"), FormInt(2)>>),
                             FormList(<<>>)>>)
    /\ conv.val = ValList(<<ValList(<<ValSymbol("x"), ValInt(2)>>),
                            ValList(<<>>)>>)
    /\ conv.res = <<"Ok", conv.src>>

-----------------------------------------------------------------------------
(* Properties of calls *)

\* the fiber s is past the last instruction of every frame above depth
CallCompleted(s, depth) ==
    s.pc = "after" /\ Len(PopCompleted(FiberOf(s)).cframes) <= depth

\* the fiber s run on until the call made at depth frames completed, or
\* run returned to the host
RECURSIVE RunToCompletion(_, _, _)
RunToCompletion(s, depth, fuel) ==
    IF s.pc = "host" \/ fuel = 0 \/ CallCompleted(s, depth)
       \/ Len(s.cframes) > MaxFrames
    THEN s
    ELSE RunToCompletion(NextOf(s, <<"none">>), depth, fuel - 1)

\* the iteration of run under way executes CallFunc(n) without an error or
\* a suspension
CallsFunc(n) ==
    /\ pc = "fetch"
    /\ FetchInst(Fiber) = <<"Some", CallFunc(n)>>
    /\ pc' = "after"

\* the callee of the CallFunc(n) about to run
CalleeOf(n) == stack[Len(stack) - n]

\* the stack of e is n values shallower than the stack now
NetEffect(e, depth, n) ==
    CallCompleted(e, depth) => Len(e.stack) = Len(stack) - n

\* C28: CallFunc(n) pops n+1 values; a native that returns has pushed one
\* value at once; a lambda call pushes nothing at the call and one value
\* by the time its frame completes: after a completed call the stack is n
\* values shallower than before the CallFunc, for every callee
C28_CallFuncNetEffect ==
    [][ \A n \in 0..2 : CallsFunc(n) =>
          /\ CalleeOf(n)[1] = "NativeFn" =>
                /\ Len(stack') = Len(stack) - n
                /\ Len(cframes') = Len(cframes)
          /\ CalleeOf(n)[1] = "Lambda" =>
                /\ Len(stack') = Len(stack) - (n + 1)
                /\ Len(cframes') = Len(cframes) + 1
          /\ NetEffect(RunToCompletion(ThisFiber', Len(cframes),
                                       MaxAloneSteps),
                       Len(cframes), n) ]_vars

-----------------------------------------------------------------------------
(* Properties of the implicit return *)

\* the frames below the top one are left as they are
LowerFramesKept ==
    \A k \in 1..Len(cframes) :
        (k < Len(cframes) /\ k <= Len(cframes')) => cframes'[k] = cframes[k]

\* the end of an iteration pops the finished frames above the root, all of
\* them and nothing else, and leaves the operand stack to the caller
PopsFinishedFrames ==
    pc = "after" =>
        /\ Len(cframes') <= Len(cframes)
        /\ \A k \in 1..Len(cframes) :
              IF k <= Len(cframes') THEN cframes'[k] = cframes[k]
              ELSE IsDone(cframes[k])
        /\ Len(cframes') > 1 => ~IsDone(cframes'[Len(cframes')])
        /\ pc' = "fetch" => stack' = stack

\* the caller of a completed call: its frame is the one the CallFunc left,
\* the instruction after the CallFunc is next (the caller is popped as well
\* when the CallFunc was its last), and the operand stack is the one the
\* callee finished with
CallerContinues(e, depth) ==
    CallCompleted(e, depth) =>
        /\ SubSeq(e.cframes, 1, depth) = SubSeq(cframes', 1, depth)
        /\ e.cframes[depth].ip = cframes[depth].ip + 1
        /\ e.cframes[depth].env = cframes[depth].env
        /\ AfterDispatchOf(e).cframes
              = SubSeq(cframes', 1, Len(AfterDispatchOf(e).cframes))
        /\ ~IsDone(e.cframes[depth]) =>
              Len(AfterDispatchOf(e).cframes) = depth
        /\ AfterDispatchOf(e).pc = "fetch" =>
              AfterDispatchOf(e).stack = e.stack

-----------------------------------------------------------------------------
(* Properties of the call-frame stack *)

\* the frame Fiber::from_bytecode made is the first of the frames
RootInPlace ==
    /\ Len(cframes) >= 1
    /\ cframes[1].env = GlobalEnv
    /\ cframes[1].code \in Programs

\* the root frame stays, with its code and its environment
RootKept ==
    /\ cframes'[1].code = cframes[1].code
    /\ cframes'[1].env = cframes[1].env

\* C30: the call-frame stack is never empty, before the first resume, while
\* running, when suspended, when done and after an error; its first element
\* is the root frame made at construction, and only frames above it are
\* popped
C30_RootFrameStays == []RootInPlace /\ [][RootKept]_vars

\* the fiber returned its result with the root frame alone left, after two
\* frames above it were pushed and popped
C30_Witness ==
    /\ pc = "host"
    /\ Len(cframes) = 1
    /\ Runs(TailCall)
    /\ ret = <<"Done", ValInt(2)>>
    /\ cframes[1] = [ip |-> Len(TailCall), code |-> TailCall, env |-> GlobalEnv]

-----------------------------------------------------------------------------
(* Properties of the instruction fetch *)

\* fiber.rs: a fetch with the top frame's ip outside its code makes resume
\* return Err(NoMoreBytecode) and touches nothing
OutsideCodeInFiberRs ==
    [][ (pc = "fetch" /\ FetchInst(Fiber)[1] = "None") =>
            /\ pc' = "host"
            /\ ret' = <<"Err", NoMoreBytecode>>
            /\ UNCHANGED <<cframes, stack, envs>> ]_vars

\* fiber.rs: a JumpFwd went past the end of the root frame's code, and the
\* next fetch failed
OvershootInFiberRs ==
    /\ pc = "host"
    /\ cframes # <<>>
    /\ Len(cframes) = 1
    /\ cframes[1].ip > Len(cframes[1].code)
    /\ ret = <<"Err", NoMoreBytecode>>

\* C31: a fetch with the top frame's ip outside its code fails with
\* NoMoreBytecode; it does not panic
C31_OutsideCodeNoMoreBytecode ==
    [][ (pc2 = "run" /\ FetchInst(Fiber2)[1] = "None") =>
            /\ pc2' = "host"
            /\ ret2' # <<"Panic">>
            /\ status2' = CompletedWith(ResErr(NoMoreBytecode)) ]_vars

-----------------------------------------------------------------------------
(* Properties of single instructions *)

\* the iteration of run under way executes the instruction inst
Executes(inst) == pc = "fetch" /\ FetchInst(Fiber) = <<"Some", inst>>

\* the iteration changes nothing of the frames but the ip of the top one,
\* which is now n past the instruction executed
OnlyIpMoves(n) ==
    cframes' = [cframes EXCEPT ![Len(cframes)].ip = @ + 1 + n]

\* C32: PopTop removes the top operand and nothing else; on an empty operand
\* stack resume returns Err(UnexpectedStack) at that PopTop, no later
\* instruction having run
C32_PopTop ==
    [][ Executes(PopTop) =>
          /\ OnlyIpMoves(0)
          /\ envs' = envs
          /\ IF stack = <<>>
             THEN /\ pc' = "host"
                  /\ ret' = <<"Err", UnexpectedStack>>
                  /\ stack' = <<>>
             ELSE /\ pc' = "after"
                  /\ stack' = SubSeq(stack, 1, Len(stack) - 1)
                  /\ ret' = ret ]_vars

\* embedding.rs fiber_invalid_bytecode, an instruction following: the first
\* resume returned the error with the PushConst after the PopTop not run
C32_Witness ==
    /\ Runs(PopTopThenPush)
    /\ pc = "host"
    /\ resumes = 1
    /\ ret = <<"Err", UnexpectedStack>>
    /\ stack = <<>>
    /\ cframes[1].ip = 1

\* the instruction the iteration of run under way executes
NowInst == FetchInst(Fiber)[2]

\* the iteration of run under way executes an instruction of the kind op
ExecutesKind(op) ==
    pc = "fetch" /\ FetchInst(Fiber)[1] = "Some" /\ NowInst[1] = op

\* the environment of the frame the iteration runs in
NowEnv == cframes[Len(cframes)].env

\* the environment e binds s to v and is otherwise what it was
BindsOnly(e, s, v) ==
    /\ DOMAIN envs' = DOMAIN envs
    /\ \A k \in DOMAIN envs : k # e => envs'[k] = envs[k]
    /\ envs'[e].parent = envs[e].parent
    /\ DOMAIN envs'[e].vars = DOMAIN envs[e].vars \cup {s}
    /\ envs'[e].vars[s] = v
    /\ \A x \in DOMAIN envs[e].vars : x # s => envs'[e].vars[x] = envs[e].vars[x]

\* C33: DefSym(s) binds s to the top of the stack in the environment of the
\* current frame, a new binding or over the one there, never in a parent,
\* and leaves the operand stack; on an empty stack resume returns
\* Err(UnexpectedStack) and nothing is defined
C33_DefSym ==
    [][ ExecutesKind("DefSym") =>
          /\ OnlyIpMoves(0)
          /\ stack' = stack
          /\ IF stack = <<>>
             THEN /\ pc' = "host"
                  /\ ret' = <<"Err", UnexpectedStack>>
                  /\ envs' = envs
             ELSE /\ pc' = "after"
                  /\ ret' = ret
                  /\ BindsOnly(NowEnv, NowInst[2], stack[Len(stack)]) ]_vars

\* (def x 2) in the frame of a lambda, x being defined in the global
\* environment: the global x is still 0, and the program's value is 0
C33_Witness ==
    /\ Runs(ShadowDef)
    /\ pc = "host"
    /\ ret = <<"Done", ValInt(0)>>
    /\ envs[GlobalEnv].vars["x"] = ValInt(0)
    /\ Len(envs) = 2
    /\ envs[2].parent = GlobalEnv
    /\ envs[2].vars["x"] = ValInt(2)

\* the environments of ch, a chain from a frame outwards, that define s
Definers(ch, s) == { i \in 1..Len(ch) : s \in DOMAIN envs[ch[i]].vars }

\* the least of a set of numbers
Least(S) == CHOOSE i \in S : \A j \in S : i <= j

\* GetSym(s) in a frame whose chain of environments is ch
GetsNearest(ch, s) ==
    IF Definers(ch, s) = {}
    THEN /\ pc' = "host"
         /\ ret' = <<"Err", UndefinedSymbol(s)>>
         /\ stack' = stack
    ELSE /\ pc' = "after"
         /\ ret' = ret
         /\ stack' = Append(stack, envs[ch[Least(Definers(ch, s))]].vars[s])

\* C34: GetSym(s) pushes the value s is bound to in the nearest enclosing
\* environment that defines it and changes no environment; when none
\* defines it resume returns Err(UndefinedSymbol(s)) and nothing is pushed
C34_GetSym ==
    [][ ExecutesKind("GetSym") =>
          /\ OnlyIpMoves(0)
          /\ envs' = envs
          /\ GetsNearest(Chain(envs, NowEnv), NowInst[2]) ]_vars

\* x is 0 in the global environment and 2 in the frame of the lambda: the
\* GetSym of the lambda's body pushed 2
C34_Witness ==
    /\ Runs(ShadowDef)
    /\ pc = "after"
    /\ Len(cframes) = 2
    /\ cframes[2].ip = 4
    /\ envs[GlobalEnv].vars["x"] = ValInt(0)
    /\ envs[cframes[2].env].vars["x"] = ValInt(2)
    /\ stack = << ValInt(2) >>

\* Truthiness: Nil and Bool(false) are false, everything else is true
Truthy(v) == v # ValNil /\ v # ValBool(FALSE)

\* C35: PopJumpFwdIfTrue(k) pops the top operand and skips the next k
\* instructions of the frame when it is truthy, none when it is not;
\* one operand is gone either way
C35_PopJumpFwdIfTrue ==
    [][ (ExecutesKind("PopJumpFwdIfTrue") /\ stack # <<>>) =>
          /\ pc' = "after"
          /\ ret' = ret
          /\ stack' = SubSeq(stack, 1, Len(stack) - 1)
          /\ envs' = envs
          /\ OnlyIpMoves(IF Truthy(stack[Len(stack)]) THEN NowInst[2] ELSE 0)
      ]_vars

\* the frame the jump landed at the end of ends as every frame does: above
\* the root it is popped, the root gives the fiber's result
EndsFrame(e) ==
    IsDone(e.cframes[Len(e.cframes)]) =>
        IF Len(cframes) > 1
        THEN Len(AfterDispatchOf(e).cframes) < Len(cframes)
        ELSE /\ AfterDispatchOf(e).pc = "host"
             /\ AfterDispatchOf(e).ret =
                   IF stack = <<>> THEN <<"Err", UnexpectedStack>>
                   ELSE <<"Done", stack[Len(stack)]>>

\* C36: JumpFwd(k) at index i makes index i+1+k the next instruction of the
\* frame; the stack is unchanged, no skipped instruction runs, and a jump
\* to code.len() ends the frame as reaching its end does
C36_JumpFwd ==
    [][ ExecutesKind("JumpFwd") =>
          /\ OnlyIpMoves(NowInst[2])
          /\ stack' = stack
          /\ envs' = envs
          /\ pc' = "after"
          /\ ret' = ret
          /\ EndsFrame(ThisFiber') ]_vars

\* fiber.rs jump_fwd: the jump landed at the end of the code and the fiber
\* is done with the value pushed before the jump, nothing else pushed
C36_Witness ==
    /\ Runs(JumpFwdProg)
    /\ pc = "host"
    /\ resumes = 1
    /\ ret = <<"Done", ValString("this")>>
    /\ stack = <<>>
    /\ cframes[1].ip = Len(JumpFwdProg)

-----------------------------------------------------------------------------
(* Properties of tail calls *)

\* fiber.rs: every suspension of the yielding counter has one frame more
\* than the one before
TailCallFramesGrow ==
    (Runs(Yielding) /\ pc = "host" /\ ret[1] = "Yield") =>
        Len(cframes) = resumes + 1

\* C37: in the yielding counter, whose function ends with a call of itself,
\* the call frames stay bounded over the resumes: the root's and the
\* function's, the caller's frame being replaced by the callee's
C37_TailCallBounded == Runs(Yielding) => Len(cframes) <= 2

-----------------------------------------------------------------------------
(* The Runtime of core/src/runtime.rs: requesters call number_of_clients    *)
(* on one Runtime handle; the event loop task answers them.                 *)

\* requests made on the Runtime in a behaviour
MaxRequests == 3

\* mpsc::channel(32)
EvloopCap == 32

\* the tasks that call number_of_clients
Requesters == {1, 2}

\* Message::GetNumberOfClients(resp_tx): resp_tx is the Sender of oneshot id
GetNumberOfClients(id) == <<"GetNumberOfClients", id>>

\* oneshot::channel(): nothing sent, the Receiver held by the requester
OneshotChannel == [val |-> <<"None">>, rx |-> "open", sends |-> 0]

\* oneshot Sender::send(v): the value is stored for the Receiver, or given
\* back when the Receiver was dropped; the Sender is consumed
OneshotSend(ch, v) ==
    IF ch.rx = "dropped" THEN [ch EXCEPT !.sends = @ + 1]
    ELSE [ch EXCEPT !.val = <<"Some", v>>, !.sends = @ + 1]

\* a handler that counts the requester as a client
HandleMsgAddsClient(cl, os, msg) ==
    [clients  |-> Append(cl, msg[2]),
     oneshots |-> [os EXCEPT ![msg[2]] = OneshotSend(@, Len(cl))]]

\* EventLoop::handle_msg: let _ = resp_tx.send(self.clients.len())
HandleMsg(cl, os, msg) ==
    [clients  |-> cl,
     oneshots |-> [os EXCEPT ![msg[2]] = OneshotSend(@, Len(cl))]]

\* Runtime::new() returned: the channel is empty, the event loop task is
\* spawned with EventLoop::new(), no request was made
InitRuntime ==
    /\ runtime = "live"
    /\ evloop_rx = <<>>
    /\ evloop = [pc |-> "recv"]
    /\ clients = <<>>
    /\ oneshots = <<>>
    /\ tasks = [i \in Requesters |-> [pc |-> "idle", req |-> 0, answers |-> <<>>]]
    /\ resumes = 0
    /\ Init1Idle
    /\ Init2Idle
    /\ InitPairIdle
    /\ InitConvIdle

OtherVars == <<vars1, vars2, vars3, vars4, resumes>>

\* number_of_clients up to its second await: the oneshot is made and the
\* message sent; send waits while the channel is full
NumberOfClients(i) ==
    /\ runtime = "live"
    /\ tasks[i].pc = "idle"
    /\ Len(oneshots) < MaxRequests
    /\ Len(evloop_rx) < EvloopCap
    /\ oneshots' = Append(oneshots, OneshotChannel)
    /\ evloop_rx' = Append(evloop_rx, GetNumberOfClients(Len(oneshots) + 1))
    /\ tasks' = [tasks EXCEPT ![i].pc = "waiting", ![i].req = Len(oneshots) + 1]
    /\ UNCHANGED <<runtime, evloop, clients, OtherVars>>

\* Ok(req_rx.await?): the requester takes the answer from its oneshot
Answered(i) ==
    /\ tasks[i].pc = "waiting"
    /\ oneshots[tasks[i].req].val[1] = "Some"
    /\ oneshots[tasks[i].req].rx = "open"
    /\ tasks' = [tasks EXCEPT ![i].pc = "idle",
                              ![i].answers = Append(@, oneshots[tasks[i].req].val[2])]
    /\ oneshots' = [oneshots EXCEPT ![tasks[i].req].rx = "taken"]
    /\ UNCHANGED <<runtime, evloop_rx, evloop, clients, OtherVars>>

\* the future of number_of_clients is dropped while it waits for the answer:
\* its Receiver is dropped with it
Cancelled(i) ==
    /\ tasks[i].pc = "waiting"
    /\ tasks' = [tasks EXCEPT ![i].pc = "idle"]
    /\ oneshots' = [oneshots EXCEPT ![tasks[i].req].rx = "dropped"]
    /\ UNCHANGED <<runtime, evloop_rx, evloop, clients, OtherVars>>

\* the Runtime handle is dropped, no call borrowing it: the Sender of the
\* event loop's channel goes with it
DropRuntime ==
    /\ runtime = "live"
    /\ \A i \in Requesters : tasks[i].pc = "idle"
    /\ runtime' = "dropped"
    /\ UNCHANGED <<evloop_rx, evloop, clients, oneshots, tasks, OtherVars>>

\* while let Some(msg) = evloop_rx.recv().await
EvloopRecv ==
    /\ evloop.pc = "recv"
    /\ evloop_rx # <<>>
    /\ evloop' = [pc |-> "handle", msg |-> Head(evloop_rx)]
    /\ evloop_rx' = Tail(evloop_rx)
    /\ UNCHANGED <<runtime, clients, oneshots, tasks, OtherVars>>

\* recv() gives None: the channel is empty and its Sender dropped
EvloopExit ==
    /\ evloop.pc = "recv"
    /\ evloop_rx = <<>>
    /\ runtime = "dropped"
    /\ evloop' = [pc |-> "exited"]
    /\ UNCHANGED <<runtime, evloop_rx, clients, oneshots, tasks, OtherVars>>

\* evloop.handle_msg(msg)
EvloopHandle ==
    /\ evloop.pc = "handle"
    /\ clients' = HandleMsg(clients, oneshots, evloop.msg).clients
    /\ oneshots' = HandleMsg(clients, oneshots, evloop.msg).oneshots
    /\ evloop' = [pc |-> "recv"]
    /\ UNCHANGED <<runtime, evloop_rx, tasks, OtherVars>>

NextRuntime ==
    \/ \E i \in Requesters : NumberOfClients(i)
    \/ \E i \in Requesters : Answered(i)
    \/ \E i \in Requesters : Cancelled(i)
    \/ DropRuntime
    \/ EvloopRecv
    \/ EvloopExit
    \/ EvloopHandle

\* the tasks of tokio are polled when they can proceed: the event loop task
\* and a requester whose answer has come
SpecRuntime ==
    /\ InitRuntime
    /\ [][NextRuntime]_vars
    /\ WF_vars(EvloopRecv)
    /\ WF_vars(EvloopHandle)
    /\ \A i \in Requesters : WF_vars(Answered(i))

\* properties ---------------------------------------------------------------

\* the requests in the channel, in order
Queued == [k \in DOMAIN evloop_rx |-> evloop_rx[k][2]]

\* the request the event loop holds
InHand == IF evloop.pc = "handle" THEN {evloop.msg[2]} ELSE {}

\* every request made is in the channel, in the event loop's hand or
\* answered, in one of the three and once
EachRequestOnce ==
    runtime # "none" =>
        \A id \in DOMAIN oneshots :
            /\ oneshots[id].sends
                 + Cardinality({k \in DOMAIN Queued : Queued[k] = id})
                 + Cardinality(InHand \cap {id}) = 1
            /\ oneshots[id].val[1] = "Some" => oneshots[id].sends = 1

\* a newly created Runtime has no clients: every answer is 0
AnswersAreCounts ==
    runtime # "none" =>
        /\ clients = <<>>
        /\ \A id \in DOMAIN oneshots :
              oneshots[id].val \in {<<"None">>, <<"Some", 0>>}
        /\ \A i \in Requesters : \A k \in DOMAIN tasks[i].answers :
              tasks[i].answers[k] = 0

\* the event loop takes the oldest message of the channel, and new ones
\* come after those in it
ArrivalOrder ==
    /\ (evloop.pc = "recv" /\ evloop'.pc = "handle") =>
          /\ evloop'.msg = Head(evloop_rx)
          /\ evloop_rx' = Tail(evloop_rx)
    /\ Len(evloop_rx') > Len(evloop_rx) =>
          SubSeq(evloop_rx', 1, Len(evloop_rx)) = evloop_rx

\* handling a message sends the number of clients on the oneshot of the
\* message, on no other, and leaves the clients
HandlesOwn ==
    (evloop.pc = "handle" /\ evloop'.pc = "recv") =>
        /\ clients' = clients
        /\ \A id \in DOMAIN oneshots :
              IF id = evloop.msg[2]
              THEN /\ oneshots[id].sends = 0
                   /\ oneshots'[id].sends = 1
                   /\ oneshots[id].rx = "open" =>
                         oneshots'[id].val = <<"Some", Len(clients)>>
              ELSE oneshots'[id] = oneshots[id]

\* a requester takes the answer of its own request
TakesOwn ==
    \A i \in Requesters :
        Len(tasks'[i].answers) > Len(tasks[i].answers) =>
            /\ oneshots[tasks[i].req].val[1] = "Some"
            /\ tasks'[i].answers =
                  Append(tasks[i].answers, oneshots[tasks[i].req].val[2])
            /\ \A j \in Requesters : j # i => tasks[j].req # tasks[i].req

\* every request made is handled, and no requester waits for ever
EveryRequestHandled ==
    /\ \A id \in 1..MaxRequests :
          (id \in DOMAIN oneshots) ~>
              (id \in DOMAIN oneshots /\ oneshots[id].sends = 1)
    /\ \A i \in Requesters :
          (runtime # "none" /\ tasks[i].pc = "waiting") ~>
              (tasks[i].pc = "idle")

\* C38: every number_of_clients request sent to the event loop is handled
\* in arrival order and answered exactly once, on its own oneshot channel,
\* with the number of clients of the event loop at the time of handling (0
\* for a new Runtime); concurrent requesters each receive their own answer,
\* and handling a request never changes the client list
C38_RequestResponse ==
    /\ [](EachRequestOnce /\ AnswersAreCounts)
    /\ [][runtime # "none" => ArrivalOrder /\ HandlesOwn /\ TakesOwn]_vars
    /\ EveryRequestHandled

\* two requesters had requests in the channel at the same time; both were
\* answered 0 and each received its answer
C38_Witness ==
    /\ runtime = "live"
    /\ tasks[1].answers = <<0>>
    /\ tasks[2].answers = <<0>>
    /\ tasks[1].req = 2
    /\ tasks[2].req = 1
    /\ oneshots[1].rx = "taken"
    /\ oneshots[2].rx = "taken"
    /\ evloop_rx = <<>>
    /\ evloop.pc = "recv"

====
